---- MODULE Spec2Model ----
(***************************************************************************)
(* SupportGenie: the React dashboard of frontend/src/App.js (the enhanced  *)
(* variant, lines 48-1064, and the basic variant, lines 1099-1631), the    *)
(* HTTP backend it talks to, and the runs of setup.sh.  The backend        *)
(* (backend/server.py) is described by spec.md only; its definitions are   *)
(* marked "spec" below.                                                    *)
(*                                                                         *)
(* Texts are sequences of one-character strings, so that trim(), the       *)
(* case-insensitive keyword match and the emptiness tests are computed.    *)
(***************************************************************************)
EXTENDS Integers, Sequences, FiniteSets

\* ------------------------------------------------------------------ bounds
\* chat requests issued in one run (UI sends and direct API posts together)
MaxRequests == 2
\* readings of the clock: Date.now() takes the values 0..MaxClock
MaxClock == 1
\* chat messages sent while the clock advances
MaxTimedSends == 1
\* pending auto-dismiss timers per error key
MaxTimers == 2
\* upload and delete requests issued in one run
MaxKbOps == 2
\* the largest count an analytics body carries
MaxCount == 3

\* ------------------------------------------------------------------- texts
EmptyText == <<>>
\* JavaScript null / undefined where a text is expected (both falsy)
Null == <<"null">>

\* App.js:95  EnterMessageText = "Please enter a message"
EnterMessageText ==
    <<"P","l","e","a","s","e"," ","e","n","t","e","r"," ","a"," ","m","e","s","s","a","g","e">>
\* App.js:133, 1164  DefaultErrorText = "Sorry, I'm having trouble connecting right now. Please try again."
DefaultErrorText ==
    <<"S","o","r","r","y",","," ","I","'","m"," ","h","a","v","i","n","g"," ","t","r","o","u","b","l","e"," ","c","o","n","n","e","c","t","i","n","g"," ","r","i","g","h","t"," ","n","o","w","."," ","P","l","e","a","s","e"," ","t","r","y"," ","a","g","a","i","n",".">>
\* App.js:136  UnavailableText = "Our AI service is temporarily unavailable. Please try again in a moment."
UnavailableText ==
    <<"O","u","r"," ","A","I"," ","s","e","r","v","i","c","e"," ","i","s"," ","t","e","m","p","o","r","a","r","i","l","y"," ","u","n","a","v","a","i","l","a","b","l","e","."," ","P","l","e","a","s","e"," ","t","r","y"," ","a","g","a","i","n"," ","i","n"," ","a"," ","m","o","m","e","n","t",".">>
\* App.js:138  TimedOutText = "Request timed out. Please check your connection and try again."
TimedOutText ==
    <<"R","e","q","u","e","s","t"," ","t","i","m","e","d"," ","o","u","t","."," ","P","l","e","a","s","e"," ","c","h","e","c","k"," ","y","o","u","r"," ","c","o","n","n","e","c","t","i","o","n"," ","a","n","d"," ","t","r","y"," ","a","g","a","i","n",".">>
\* App.js:222
AnalyticsErrorText ==
    <<"F","a","i","l","e","d"," ","t","o"," ","l","o","a","d"," ","a","n","a","l","y","t","i","c","s"," ","d","a","t","a">>

\* spec 4.5 step 5, "a fixed fallback AI message"  FallbackText = "I'm sorry, I can't answer right now. Please try again later."
FallbackText ==
    <<"I","'","m"," ","s","o","r","r","y",","," ","I"," ","c","a","n","'","t"," ","a","n","s","w","e","r"," ","r","i","g","h","t"," ","n","o","w","."," ","P","l","e","a","s","e"," ","t","r","y"," ","a","g","a","i","n"," ","l","a","t","e","r",".">>
\* GenTextA = "Sure, happy to help!"
GenTextA ==
    <<"S","u","r","e",","," ","h","a","p","p","y"," ","t","o"," ","h","e","l","p","!">>
\* GenTextB = "Your refund is on its way."
GenTextB ==
    <<"Y","o","u","r"," ","r","e","f","u","n","d"," ","i","s"," ","o","n"," ","i","t","s"," ","w","a","y",".">>
\* KwRefund = "refund"
KwRefund ==
    <<"r","e","f","u","n","d">>
\* KwManager = "manager"
KwManager ==
    <<"m","a","n","a","g","e","r">>
\* MsgRefund = "I want a refund"
MsgRefund ==
    <<"I"," ","w","a","n","t"," ","a"," ","r","e","f","u","n","d">>
\* MsgThanks = "thanks, great job"
MsgThanks ==
    <<"t","h","a","n","k","s",","," ","g","r","e","a","t"," ","j","o","b">>
\* MsgShout = " Get me a MANAGER "
MsgShout ==
    <<" ","G","e","t"," ","m","e"," ","a"," ","M","A","N","A","G","E","R"," ">>
\* MsgSpaces = "  "
MsgSpaces ==
    <<" "," ">>

\* what the user can type into the chat input
Inputs == {MsgSpaces, MsgShout}
\* what another API client posts
ApiTexts == {EmptyText, MsgRefund, MsgThanks}
\* texts the completion provider generates (spec 4.3: "returns generated text")
GenTexts == {GenTextB}
\* the configured escalation keywords (spec 4.4, scenario of spec 8)
Keywords == {KwRefund, KwManager}
\* the provider's three failures (spec 4.3)
ProviderFailures == {"ProviderUnavailable", "ProviderTimeout", "ProviderRejected"}

\* ------------------------------------------------------- string primitives
IsSpace(c) == c \in {" ", "\t", "\n", "\r"}

RECURSIVE TrimStart(_)
TrimStart(s) ==
    IF s = <<>> THEN <<>>
    ELSE IF IsSpace(Head(s)) THEN TrimStart(Tail(s)) ELSE s

RECURSIVE TrimEnd(_)
TrimEnd(s) ==
    IF s = <<>> THEN <<>>
    ELSE IF IsSpace(s[Len(s)]) THEN TrimEnd(SubSeq(s, 1, Len(s) - 1)) ELSE s

\* String.prototype.trim
Trim(s) == TrimEnd(TrimStart(s))

\* JavaScript truthiness of a text value: null, undefined and "" are falsy
Truthy(s) == s # Null /\ s # EmptyText

\* a variant that tests !currentMessage, without trim()
IsBlankNoTrim(s) == ~Truthy(s)
\* !currentMessage.trim()
IsBlank(s) == ~Truthy(Trim(s))

UpperChars == <<"A","B","C","D","E","F","G","H","I","J","K","L","M",
                "N","O","P","Q","R","S","T","U","V","W","X","Y","Z">>
LowerChars == <<"a","b","c","d","e","f","g","h","i","j","k","l","m",
                "n","o","p","q","r","s","t","u","v","w","x","y","z">>

LowerChar(c) ==
    IF \E i \in 1..26 : UpperChars[i] = c
    THEN LowerChars[CHOOSE i \in 1..26 : UpperChars[i] = c]
    ELSE c

ToLower(s) == [i \in 1..Len(s) |-> LowerChar(s[i])]

\* does needle start at position i of hay
RECURSIVE MatchAt(_, _, _, _)
MatchAt(hay, needle, i, j) ==
    IF j > Len(needle) THEN TRUE
    ELSE IF i + j - 1 > Len(hay) THEN FALSE
    ELSE IF hay[i + j - 1] # needle[j] THEN FALSE
    ELSE MatchAt(hay, needle, i, j + 1)

\* substring search, left to right
RECURSIVE FindFrom(_, _, _)
FindFrom(hay, needle, i) ==
    IF i + Len(needle) - 1 > Len(hay) THEN FALSE
    ELSE IF MatchAt(hay, needle, i, 1) THEN TRUE
    ELSE FindFrom(hay, needle, i + 1)

Contains(hay, needle) == FindFrom(hay, needle, 1)

\* a variant that compares without folding the case of the message
shouldEscalateCaseSensitive(userMessage, aiReply, keywords) ==
    \E k \in keywords : Contains(userMessage, ToLower(k))
\* spec 4.4: case-insensitive substring match of any configured keyword
\* against userMessage
shouldEscalate(userMessage, aiReply, keywords) ==
    \E k \in keywords : Contains(ToLower(userMessage), ToLower(k))

\* --------------------------------------------------------------- the state
VARIABLES
    pc,             \* setup.sh: the function the script is in ("off": not run)
    argv1,          \* setup.sh: $1 ("" when there is no argument)
    choice,         \* setup.sh: the answer read by main_menu (169)
    hasDocker,      \* setup.sh: command -v docker succeeds (11)
    hasCompose,     \* setup.sh: command -v docker-compose succeeds (17)
    OPENAI_API_KEY, \* setup.sh: the shell variable (62-64)
    envFile,        \* setup.sh: the key written to .env (73-75)
    composeUp,      \* setup.sh: docker-compose up was run (98, 180, 226)
    exitStatus,     \* setup.sh: the status the script ended with
    variant,        \* which App is mounted: "enhanced" (48-1064) or "basic" (1099-1631)
    activeTab,      \* useState("dashboard")   App.js:50 / useState("chat") 1101
    now,            \* the clock read by Date.now() / new Date()
    messages,       \* useState([])            App.js:51 / 1102
    currentMessage, \* useState("")            App.js:52 / 1103
    brandTone,      \* useState("friendly")    App.js:54 / 1105
    isLoading,      \* useState(false)         App.js:55 / 1106
    analytics,      \* useState({})            App.js:57 / 1108
    errors,         \* useState({})            App.js:59
    errorTimers,    \* pending setTimeout callbacks of showError, per key
    chatReqs,       \* POST /api/chat requests in flight or being served
    anaReqs,        \* GET /api/analytics requests, in the order they were issued
    anaShown,       \* history: the loadAnalytics call whose response analytics holds
    nreq,           \* chat requests issued so far
    msgStore,       \* Message Store: the append-only log of ChatMessage
    knowledgeBase,  \* useState([])            App.js:56 / 1107
    uploadFile,     \* useState(null)          App.js:58 / 1109
    isUploading,    \* useState(false)         App.js:60
    successMessage, \* useState("")            App.js:61
    successTimers,  \* pending setTimeout callbacks of showSuccess
    kbReqs,         \* GET /api/knowledge-base requests, in the order issued
    kbShown,        \* history: the loadKnowledgeBase call whose response knowledgeBase holds
    upReqs,         \* POST /api/knowledge-base/upload requests
    delReqs,        \* DELETE /api/knowledge-base/{id} requests
    nkb,            \* upload and delete requests issued so far
    kStore,         \* Knowledge Store: the KnowledgeItem records
    nextId          \* the next KnowledgeItem id the store assigns

\* what only the knowledge-base handlers and endpoints touch
kbVars == <<knowledgeBase, kbShown, uploadFile, isUploading, successMessage, successTimers,
            kbReqs, upReqs, delReqs, nkb, kStore, nextId>>
\* what only the chat and analytics handlers and endpoints touch
chatVars == <<messages, currentMessage, brandTone, isLoading, analytics, anaShown,
              chatReqs, anaReqs, nreq, msgStore>>
\* the state of a run of setup.sh
shVars == <<pc, argv1, choice, hasDocker, hasCompose, OPENAI_API_KEY, envFile,
            composeUp, exitStatus>>
vars == <<variant, activeTab, now, errors, errorTimers, chatVars, kbVars, shVars>>

Variants == {"enhanced", "basic"}
\* setup.sh: .env does not exist yet
NoEnvFile == "no file"
Tones == {"friendly", "formal", "casual"}
ErrKeys == {"chat", "upload", "knowledgeBase", "analytics"}
\* the session id of the mounted UI, and the one of another API client
sessionId == "session_ui"
ApiSession == "session_api"

EmptyObject == [k \in {} |-> 0]
NoResp == [status |-> 0, message |-> Null, escalated |-> FALSE, error |-> "none"]
NoAnaResp == [status |-> 0, data |-> EmptyObject]

\* ------------------------------------------------ Message Store (spec 4.1)
ChatMessage(sid, text, who, t, esc) ==
    [session_id |-> sid, message |-> text, sender |-> who,
     timestamp |-> t, escalated |-> esc]

append(store, msg) == Append(store, msg)

countAll(store) == Len(store)

\* countWhere(predicate), the predicate being field == value
countWhere(store, field, value) ==
    Cardinality({i \in 1..Len(store) : store[i][field] = value})

\* insert m after the last element whose timestamp is not larger
RECURSIVE InsertByTimestamp(_, _)
InsertByTimestamp(sorted, m) ==
    IF sorted = <<>> THEN <<m>>
    ELSE IF sorted[Len(sorted)].timestamp <= m.timestamp THEN Append(sorted, m)
    ELSE Append(InsertByTimestamp(SubSeq(sorted, 1, Len(sorted) - 1), m),
                sorted[Len(sorted)])

RECURSIVE SortByTimestamp(_)
SortByTimestamp(s) ==
    IF s = <<>> THEN <<>>
    ELSE InsertByTimestamp(SortByTimestamp(SubSeq(s, 1, Len(s) - 1)), s[Len(s)])

listBySession(store, sid) ==
    LET IsOfSession(m) == m.session_id = sid
    IN  SortByTimestamp(SelectSeq(store, IsOfSession))

\* --------------------------------------------- Analytics Aggregator (4.6)
snapshot(store) ==
    LET total == countWhere(store, "sender", "user")
        esc   == countWhere(store, "escalated", TRUE)
    IN  [total_conversations |-> total,
         escalated           |-> esc,
         ai_handled          |-> total - esc]

\* ------------------------------------------------------- UI: pure helpers
\* analytics.<field> || 0
FieldOr0(obj, f) == IF f \in DOMAIN obj /\ obj[f] # 0 THEN obj[f] ELSE 0

\* a variant that truncates
TruncDiv(num, den) == num \div den
\* Math.round(x) for the non-negative rational num/den: floor(x + 1/2)
RoundDiv(num, den) == (2 * num + den) \div (2 * den)

\* a variant with the operands of the ratio swapped
AutomationRateSwapped(obj) ==
    IF FieldOr0(obj, "total_conversations") # 0 /\ FieldOr0(obj, "ai_handled") # 0
    THEN RoundDiv(100 * obj.total_conversations, obj.ai_handled)
    ELSE 0
\* analytics.total_conversations ?
\*   Math.round((analytics.ai_handled / analytics.total_conversations) * 100) : 0
AutomationRate(obj) ==
    IF FieldOr0(obj, "total_conversations") # 0
    THEN RoundDiv(100 * obj.ai_handled, obj.total_conversations)
    ELSE 0

\* the ratio is NaN (undefined / n) when ai_handled is missing although
\* total_conversations is there; AutomationRate is not defined for it
RateIsNaN(obj) ==
    FieldOr0(obj, "total_conversations") # 0 /\ "ai_handled" \notin DOMAIN obj

\* setMessages(prev => [...prev, msg])
PrependMessage(prev, msg) == <<msg>> \o prev
AppendMessage(prev, msg) == Append(prev, msg)

UserMessage(text, t) ==
    [id |-> [ms |-> t, suffix |-> ""], message |-> text,
     sender |-> "user", timestamp |-> t]

AiMessage(data, t) ==
    [id |-> [ms |-> t, suffix |-> "_ai"], message |-> data.message,
     sender |-> "ai", timestamp |-> t, escalated |-> data.escalated]

\* a variant that flags the error surrogate for a human
ErrorAiMessageEscalated(text, t) ==
    [id |-> [ms |-> t, suffix |-> "_error"], message |-> text,
     sender |-> "ai", timestamp |-> t, escalated |-> TRUE]
ErrorAiMessage(text, t) ==
    [id |-> [ms |-> t, suffix |-> "_error"], message |-> text,
     sender |-> "ai", timestamp |-> t]

\* {msg.escalated && <Badge>Escalated to Human</Badge>}
ShowsBadge(msg) == "escalated" \in DOMAIN msg /\ msg.escalated = TRUE

\* a variant that declares errorMessage without its default text
ChatErrorTextNoDefault(error) ==
    IF error.hasResponse /\ error.status = 500 THEN UnavailableText
    ELSE IF error.code = "ECONNABORTED" THEN TimedOutText
    ELSE Null
\* the catch block of the enhanced sendMessage chooses the text
ChatErrorText(error) ==
    IF error.hasResponse /\ error.status = 500 THEN UnavailableText
    ELSE IF error.code = "ECONNABORTED" THEN TimedOutText
    ELSE DefaultErrorText

\* showError(key, message): set the banner and start its 5 s timer
ErrorsAfterShow(errs, key, text) == [errs EXCEPT ![key] = text]
\* a variant of showError that starts no timer
TimersAfterShowNone(timers, key) == timers
\* showError(key, message): its setTimeout, one more pending callback
TimersAfterShow(timers, key) == [timers EXCEPT ![key] = @ + 1]

\* ------------------------------------------------- knowledge base: data
\* SelectFileText = "Please select a file to upload"
SelectFileText ==
    <<"P","l","e","a","s","e"," ","s","e","l","e","c","t"," ","a"," ","f","i","l","e"," ","t","o"," ","u","p","l","o","a","d">>
\* FileSizeText = "File size must be less than 5MB"
FileSizeText ==
    <<"F","i","l","e"," ","s","i","z","e"," ","m","u","s","t"," ","b","e"," ","l","e","s","s"," ","t","h","a","n"," ","5","M","B">>
\* FileTypeText = "Only TXT, CSV, and PDF files are supported"
FileTypeText ==
    <<"O","n","l","y"," ","T","X","T",","," ","C","S","V",","," ","a","n","d"," ","P","D","F"," ","f","i","l","e","s"," ","a","r","e"," ","s","u","p","p","o","r","t","e","d">>
\* TooLargeText = "File is too large. Please choose a smaller file."
TooLargeText ==
    <<"F","i","l","e"," ","i","s"," ","t","o","o"," ","l","a","r","g","e","."," ","P","l","e","a","s","e"," ","c","h","o","o","s","e"," ","a"," ","s","m","a","l","l","e","r"," ","f","i","l","e",".">>
\* UnsupportedText = "Unsupported file type. Please use TXT, CSV, or PDF files."
UnsupportedText ==
    <<"U","n","s","u","p","p","o","r","t","e","d"," ","f","i","l","e"," ","t","y","p","e","."," ","P","l","e","a","s","e"," ","u","s","e"," ","T","X","T",","," ","C","S","V",","," ","o","r"," ","P","D","F"," ","f","i","l","e","s",".">>
\* UploadFailedText = "Upload failed. Please check your connection and try again."
UploadFailedText ==
    <<"U","p","l","o","a","d"," ","f","a","i","l","e","d","."," ","P","l","e","a","s","e"," ","c","h","e","c","k"," ","y","o","u","r"," ","c","o","n","n","e","c","t","i","o","n"," ","a","n","d"," ","t","r","y"," ","a","g","a","i","n",".">>
\* LoadKbErrorText = "Failed to load knowledge base"
LoadKbErrorText ==
    <<"F","a","i","l","e","d"," ","t","o"," ","l","o","a","d"," ","k","n","o","w","l","e","d","g","e"," ","b","a","s","e">>
\* DeleteFailedText = "Failed to delete item"
DeleteFailedText ==
    <<"F","a","i","l","e","d"," ","t","o"," ","d","e","l","e","t","e"," ","i","t","e","m">>
\* DeletedText = "Knowledge base item deleted successfully"
DeletedText ==
    <<"K","n","o","w","l","e","d","g","e"," ","b","a","s","e"," ","i","t","e","m"," ","d","e","l","e","t","e","d"," ","s","u","c","c","e","s","s","f","u","l","l","y">>
\* UploadedSuffix = " uploaded successfully! Your AI is now smarter."
UploadedSuffix ==
    <<" ","u","p","l","o","a","d","e","d"," ","s","u","c","c","e","s","s","f","u","l","l","y","!"," ","Y","o","u","r"," ","A","I"," ","i","s"," ","n","o","w"," ","s","m","a","r","t","e","r",".">>
\* NameFaqTxt = "faq.txt"
NameFaqTxt ==
    <<"f","a","q",".","t","x","t">>
\* NameBigPdf = "big.pdf"
NameBigPdf ==
    <<"b","i","g",".","p","d","f">>
\* ExtTxt = ".txt"
ExtTxt ==
    <<".","t","x","t">>
\* ExtCsv = ".csv"
ExtCsv ==
    <<".","c","s","v">>
\* ExtPdf = ".pdf"
ExtPdf ==
    <<".","p","d","f">>

\* 5 * 1024 * 1024 (App.js:162; spec 6: size <= 5MB)
FiveMB == 5 * 1024 * 1024

\* uploadFile === null
NoFile == [name |-> Null, type |-> "", size |-> 0, content |-> EmptyText]
FileFaq == [name |-> NameFaqTxt, type |-> "text/plain", size |-> 2048,
            content |-> <<"f","a","q">>]
FileBig == [name |-> NameBigPdf, type |-> "application/pdf", size |-> FiveMB + 1,
            content |-> <<"b","i","g">>]
\* the files the user can pick in the file input
Files == {FileFaq, FileBig}

\* NameNotesDoc = "notes.doc"
NameNotesDoc ==
    <<"n","o","t","e","s",".","d","o","c">>
\* NameDataCsv = "DATA.CSV"
NameDataCsv ==
    <<"D","A","T","A",".","C","S","V">>
\* a file with a foreign extension that declares an allowed MIME type
FileDocAsText == [name |-> NameNotesDoc, type |-> "text/plain", size |-> 2048,
                  content |-> <<"d","o","c">>]
\* the same file declaring its own MIME type
FileDoc == [name |-> NameNotesDoc, type |-> "application/msword", size |-> 2048,
            content |-> <<"d","o","c">>]
\* an allowed extension in capitals, no MIME type declared
FileCsv == [name |-> NameDataCsv, type |-> "", size |-> 2048,
            content |-> <<"c","s","v">>]
\* the files picked where the type of the file matters (the accept attribute
\* of the input only presets the filter of the file dialog)
TypedFiles == {FileDocAsText, FileDoc, FileCsv}

\* a file of exactly 5 MB
FileFiveMB == [name |-> NameDataCsv, type |-> "text/csv", size |-> FiveMB,
               content |-> <<"c","s","v">>]
\* the files picked where the size of the file matters
SizedFiles == {FileFaq, FileFiveMB, FileBig}

NoKbResp == [status |-> 0, data |-> <<>>]

\* an item uploaded before this UI instance was loaded
SeedItem == [id |-> 0, filename |-> NameFaqTxt, content |-> <<"f","a","q">>,
             uploaded_at |-> 0]

EndsWith(s, suffix) ==
    /\ Len(suffix) <= Len(s)
    /\ SubSeq(s, Len(s) - Len(suffix) + 1, Len(s)) = suffix

\* uploadFile.name.match(/\.(txt|csv|pdf)$/i)
HasAllowedExt(name) ==
    \E e \in {ExtTxt, ExtCsv, ExtPdf} : EndsWith(ToLower(name), e)

allowedTypes == {"text/plain", "text/csv", "application/pdf"}

\* a variant whose size validation also rejects a file of exactly 5 MB
UploadCheckAtLeast(file) ==
    IF file = NoFile THEN SelectFileText
    ELSE IF file.size >= FiveMB THEN FileSizeText
    ELSE IF file.type \notin allowedTypes /\ ~HasAllowedExt(file.name) THEN FileTypeText
    ELSE Null
\* the validation of the enhanced uploadKnowledgeBase (App.js 156-172):
\* the error it shows, or Null when the file passes
UploadCheck(file) ==
    IF file = NoFile THEN SelectFileText
    ELSE IF file.size > FiveMB THEN FileSizeText
    ELSE IF file.type \notin allowedTypes /\ ~HasAllowedExt(file.name) THEN FileTypeText
    ELSE Null

\* a variant of the catch block that knows only the generic text
UploadErrorTextGeneric(error) == UploadFailedText
\* the catch block of the enhanced uploadKnowledgeBase (App.js 190-198)
UploadErrorText(error) ==
    IF error.hasResponse /\ error.status = 413 THEN TooLargeText
    ELSE IF error.hasResponse /\ error.status = 415 THEN UnsupportedText
    ELSE UploadFailedText

\* ------------------------------------------- Knowledge Store (spec 4.2)
create(store, id, filename, content, t) ==
    Append(store, [id |-> id, filename |-> filename, content |-> content,
                   uploaded_at |-> t])

RECURSIVE InsertByUploadedAt(_, _)
InsertByUploadedAt(sorted, item) ==
    IF sorted = <<>> THEN <<item>>
    ELSE IF sorted[Len(sorted)].uploaded_at <= item.uploaded_at THEN Append(sorted, item)
    ELSE Append(InsertByUploadedAt(SubSeq(sorted, 1, Len(sorted) - 1), item),
                sorted[Len(sorted)])

RECURSIVE list(_)
list(store) ==
    IF store = <<>> THEN <<>>
    ELSE InsertByUploadedAt(list(SubSeq(store, 1, Len(store) - 1)), store[Len(store)])

exists(store, id) == \E i \in 1..Len(store) : store[i].id = id

deleteById(store, id) ==
    LET Keep(item) == item.id # id
    IN  SelectSeq(store, Keep)

\* a variant that enforces the type only
UploadStatusNoSize(file) ==
    IF ~HasAllowedExt(file.name) THEN 415
    ELSE 200
\* POST /api/knowledge-base/upload (spec 6): the status the server answers
\* with, before it touches the store
UploadStatus(file) ==
    IF file.size > FiveMB THEN 413
    ELSE IF ~HasAllowedExt(file.name) THEN 415
    ELSE 200

Init ==
    /\ variant \in Variants
    /\ activeTab = IF variant = "enhanced" THEN "dashboard" ELSE "chat"
    /\ now = 0
    /\ messages = <<>>
    /\ currentMessage = EmptyText
    /\ brandTone = "friendly"
    /\ isLoading = FALSE
    /\ analytics = EmptyObject
    /\ errors = [k \in ErrKeys |-> Null]
    /\ errorTimers = [k \in ErrKeys |-> 0]
    /\ chatReqs = {}
    /\ anaReqs = <<[id |-> 1, stage |-> "sent", resp |-> NoAnaResp]>>
    /\ anaShown = 0
    /\ nreq = 0
    /\ msgStore = <<>>
    /\ knowledgeBase = <<>>
    /\ uploadFile = NoFile
    /\ isUploading = FALSE
    /\ successMessage = EmptyText
    /\ successTimers = 0
    /\ kbReqs = <<[id |-> 1, stage |-> "sent", resp |-> NoKbResp]>>
    /\ kbShown = 0
    /\ upReqs = {}
    /\ delReqs = {}
    /\ nkb = 0
    /\ kStore = <<SeedItem>>
    /\ nextId = 1
    /\ pc = "off"
    /\ argv1 = ""
    /\ choice = ""
    /\ hasDocker = FALSE
    /\ hasCompose = FALSE
    /\ OPENAI_API_KEY = ""
    /\ envFile = NoEnvFile
    /\ composeUp = FALSE
    /\ exitStatus = 0

\* ----------------------------------------------------------------- clock
Tick ==
    /\ now < MaxClock
    /\ now' = now + 1
    /\ UNCHANGED <<kbVars, variant, activeTab, shVars, messages, currentMessage, brandTone, isLoading,
                   analytics, anaShown, errors, errorTimers, chatReqs, anaReqs, nreq, msgStore>>

\* ------------------------------------------------------------ UI: inputs
\* the tabs of the variant: the enhanced sidebar has a dashboard as well
Tabs ==
    IF variant = "enhanced"
    THEN {"dashboard", "chat", "knowledge", "analytics", "settings"}
    ELSE {"chat", "knowledge", "analytics", "settings"}

\* onClick of a sidebar item / onValueChange of the Tabs
setActiveTab(t) ==
    /\ t \in Tabs /\ t # activeTab
    /\ activeTab' = t
    /\ UNCHANGED <<kbVars, chatVars, shVars, variant, now, errors, errorTimers>>

\* onChange of the textarea; the enhanced textarea is disabled={isLoading}
setCurrentMessage(v) ==
    /\ variant = "enhanced" => ~isLoading
    /\ v # currentMessage
    /\ currentMessage' = v
    /\ UNCHANGED <<kbVars, variant, activeTab, shVars, now, messages, brandTone, isLoading, analytics, anaShown,
                   errors, errorTimers, chatReqs, anaReqs, nreq, msgStore>>

\* onValueChange of the tone select
setBrandTone(t) ==
    /\ t # brandTone
    /\ brandTone' = t
    /\ UNCHANGED <<kbVars, variant, activeTab, shVars, now, messages, currentMessage, isLoading, analytics, anaShown,
                   errors, errorTimers, chatReqs, anaReqs, nreq, msgStore>>

\* the callback of showError's setTimeout: setErrors(prev => ({...prev, [key]: null}))
ErrorTimerFires(key) ==
    /\ errorTimers[key] > 0
    /\ errors' = [errors EXCEPT ![key] = Null]
    /\ errorTimers' = [errorTimers EXCEPT ![key] = @ - 1]
    /\ UNCHANGED <<kbVars, variant, activeTab, shVars, now, messages, currentMessage, brandTone, isLoading,
                   analytics, anaShown, chatReqs, anaReqs, nreq, msgStore>>

\* ------------------------------------------------------- UI: sendMessage
\* Who can call sendMessage: the Send button is disabled={isLoading ||
\* !currentMessage.trim()}; Enter calls it through handleKeyPress, which the
\* enhanced variant guards with !isLoading and the basic variant does not.
CanSend ==
    IF variant = "enhanced" THEN ~isLoading ELSE TRUE

\* a variant that makes a session id for every request after the first
NewChatReqPerRequest(n, who, sid, text, tone) ==
    [id |-> n, client |-> who, waiting |-> TRUE,
     session_id |-> IF n = 1 THEN sid ELSE "session_next",
     message |-> text, brand_tone |-> tone, stage |-> "sent", resp |-> NoResp]
\* a variant that reads the input for the body after it was cleared
NewChatReqAfterClear(n, who, sid, text, tone) ==
    [id |-> n, client |-> who, waiting |-> TRUE, session_id |-> sid,
     message |-> EmptyText, brand_tone |-> tone, stage |-> "sent", resp |-> NoResp]
\* the body of the POST /api/chat request (App.js 112-116 / 1143-1147)
NewChatReq(n, who, sid, text, tone) ==
    [id |-> n, client |-> who, waiting |-> TRUE, session_id |-> sid,
     message |-> text, brand_tone |-> tone, stage |-> "sent", resp |-> NoResp]

\* a variant that does not raise isLoading
sendMessageNotLoading ==
    /\ CanSend
    /\ IF IsBlank(currentMessage)
       THEN /\ IF variant = "enhanced"
               THEN /\ errorTimers["chat"] < MaxTimers
                    /\ errors' = ErrorsAfterShow(errors, "chat", EnterMessageText)
                    /\ errorTimers' = TimersAfterShow(errorTimers, "chat")
               ELSE UNCHANGED <<errors, errorTimers>>
            /\ UNCHANGED <<messages, currentMessage, isLoading, chatReqs, nreq>>
       ELSE /\ nreq < MaxRequests
            /\ messages' = AppendMessage(messages, UserMessage(currentMessage, now))
            /\ currentMessage' = EmptyText
            /\ isLoading' = isLoading
            /\ errors' = IF variant = "enhanced"
                         THEN [errors EXCEPT !["chat"] = Null] ELSE errors
            /\ chatReqs' = chatReqs \cup
                   {NewChatReq(nreq + 1, "ui", sessionId, currentMessage, brandTone)}
            /\ nreq' = nreq + 1
            /\ UNCHANGED errorTimers
    /\ UNCHANGED <<kbVars, variant, activeTab, shVars, now, brandTone, analytics, anaShown, anaReqs, msgStore>>
\* sendMessage up to its await (App.js 93-118 / 1128-1147)
sendMessage ==
    /\ CanSend
    /\ IF IsBlank(currentMessage)
       THEN /\ IF variant = "enhanced"
               THEN /\ errorTimers["chat"] < MaxTimers
                    /\ errors' = ErrorsAfterShow(errors, "chat", EnterMessageText)
                    /\ errorTimers' = TimersAfterShow(errorTimers, "chat")
               ELSE UNCHANGED <<errors, errorTimers>>
            /\ UNCHANGED <<messages, currentMessage, isLoading, chatReqs, nreq>>
       ELSE /\ nreq < MaxRequests
            /\ messages' = AppendMessage(messages, UserMessage(currentMessage, now))
            /\ currentMessage' = EmptyText
            /\ isLoading' = TRUE
            /\ errors' = IF variant = "enhanced"
                         THEN [errors EXCEPT !["chat"] = Null] ELSE errors
            /\ chatReqs' = chatReqs \cup
                   {NewChatReq(nreq + 1, "ui", sessionId, currentMessage, brandTone)}
            /\ nreq' = nreq + 1
            /\ UNCHANGED errorTimers
    /\ UNCHANGED <<kbVars, variant, activeTab, shVars, now, brandTone, analytics, anaShown, anaReqs, msgStore>>

\* a variant that sends a request again when it brought no reply
ForgetResend(r) ==
    IF r.resp.status = 200 THEN chatReqs \ {r}
    ELSE (chatReqs \ {r}) \cup {[r EXCEPT !.stage = "sent", !.resp = NoResp]}
\* a variant that goes on awaiting a request that has ended
ForgetNever(r) == chatReqs
\* the request leaves the UI's hands: answered ones disappear, unanswered
\* ones stay with the server, which no longer has anyone to answer
Forget(r) ==
    IF r.stage = "done" THEN chatReqs \ {r}
    ELSE (chatReqs \ {r}) \cup {[r EXCEPT !.waiting = FALSE]}

\* a number for a call of a loader that is larger than the number of the call
\* whose response is displayed and of every call still outstanding, so the
\* numbers follow the order of the calls
NextLoadId(reqs, shown) ==
    LET ids == {shown} \cup {reqs[i].id : i \in 1..Len(reqs)}
    IN  1 + CHOOSE n \in ids : \A k \in ids : k <= n

\* loadAnalytics() up to its await (App.js 215-217 / 1204-1206)
NewAnaReq == [id |-> NextLoadId(anaReqs, anaShown), stage |-> "sent", resp |-> NoAnaResp]

\* a variant whose reply takes the place of the message it answers
SendSucceedsReplacing(r) ==
    /\ messages' = AppendMessage(SubSeq(messages, 1, Len(messages) - 1),
                                 AiMessage(r.resp, now))
    /\ anaReqs' = Append(anaReqs, NewAnaReq)
    /\ isLoading' = FALSE
    /\ UNCHANGED <<errors, errorTimers>>
\* the try block after the await (App.js 120-129 / 1149-1158) and finally
SendSucceeds(r) ==
    /\ messages' = AppendMessage(messages, AiMessage(r.resp, now))
    /\ anaReqs' = Append(anaReqs, NewAnaReq)
    /\ isLoading' = FALSE
    /\ UNCHANGED <<errors, errorTimers>>

\* a variant whose catch block only reports the error
SendFailsNoSurrogate(error) ==
    /\ IF variant = "enhanced"
       THEN /\ errorTimers["chat"] < MaxTimers
            /\ errors' = ErrorsAfterShow(errors, "chat", ChatErrorText(error))
            /\ errorTimers' = TimersAfterShow(errorTimers, "chat")
       ELSE UNCHANGED <<errors, errorTimers>>
    /\ isLoading' = FALSE
    /\ UNCHANGED <<messages, anaReqs>>
\* a variant whose catch block takes the optimistic user message back
SendFailsRollback(error) ==
    /\ IF variant = "enhanced"
       THEN /\ errorTimers["chat"] < MaxTimers
            /\ errors' = ErrorsAfterShow(errors, "chat", ChatErrorText(error))
            /\ errorTimers' = TimersAfterShow(errorTimers, "chat")
       ELSE UNCHANGED <<errors, errorTimers>>
    /\ messages' = AppendMessage(SubSeq(messages, 1, Len(messages) - 1),
                                 ErrorAiMessage(DefaultErrorText, now))
    /\ isLoading' = FALSE
    /\ UNCHANGED anaReqs
\* a variant without the finally block
SendFailsNoFinally(error) ==
    /\ IF variant = "enhanced"
       THEN /\ errorTimers["chat"] < MaxTimers
            /\ errors' = ErrorsAfterShow(errors, "chat", ChatErrorText(error))
            /\ errorTimers' = TimersAfterShow(errorTimers, "chat")
            /\ messages' = AppendMessage(messages, ErrorAiMessage(ChatErrorText(error), now))
       ELSE /\ messages' = AppendMessage(messages, ErrorAiMessage(DefaultErrorText, now))
            /\ UNCHANGED <<errors, errorTimers>>
    /\ UNCHANGED <<isLoading, anaReqs>>
\* a variant whose surrogate message always carries the default text
SendFailsDefaultSurrogate(error) ==
    /\ IF variant = "enhanced"
       THEN /\ errorTimers["chat"] < MaxTimers
            /\ errors' = ErrorsAfterShow(errors, "chat", ChatErrorText(error))
            /\ errorTimers' = TimersAfterShow(errorTimers, "chat")
            /\ messages' = AppendMessage(messages, ErrorAiMessage(DefaultErrorText, now))
       ELSE /\ messages' = AppendMessage(messages, ErrorAiMessage(DefaultErrorText, now))
            /\ UNCHANGED <<errors, errorTimers>>
    /\ isLoading' = FALSE
    /\ UNCHANGED anaReqs
\* the catch block (App.js 131-149 / 1160-1168) and finally
SendFails(error) ==
    /\ IF variant = "enhanced"
       THEN /\ errorTimers["chat"] < MaxTimers
            /\ errors' = ErrorsAfterShow(errors, "chat", ChatErrorText(error))
            /\ errorTimers' = TimersAfterShow(errorTimers, "chat")
            /\ messages' = AppendMessage(messages, ErrorAiMessage(ChatErrorText(error), now))
       ELSE /\ messages' = AppendMessage(messages, ErrorAiMessage(DefaultErrorText, now))
            /\ UNCHANGED <<errors, errorTimers>>
    /\ isLoading' = FALSE
    /\ UNCHANGED anaReqs

\* the HTTP response of a chat request reaches the UI
ChatResponse(r) ==
    /\ r \in chatReqs /\ r.client = "ui" /\ r.waiting /\ r.stage = "done"
    /\ IF r.resp.status = 200
       THEN SendSucceeds(r)
       ELSE SendFails([hasResponse |-> TRUE, status |-> r.resp.status,
                       code |-> "ERR_BAD_RESPONSE"])
    /\ chatReqs' = Forget(r)
    /\ UNCHANGED <<kbVars, variant, activeTab, shVars, now, currentMessage, brandTone, analytics, anaShown, nreq, msgStore>>

\* axios rejects without a response: the 30 s timeout of the enhanced variant
\* (code ECONNABORTED) or a broken connection (code ERR_NETWORK)
AbortCodes == IF variant = "enhanced" THEN {"ECONNABORTED", "ERR_NETWORK"}
              ELSE {"ERR_NETWORK"}

ChatAbort(r, code) ==
    /\ r \in chatReqs /\ r.client = "ui" /\ r.waiting
    /\ code \in AbortCodes
    /\ SendFails([hasResponse |-> FALSE, status |-> 0, code |-> code])
    /\ chatReqs' = Forget(r)
    /\ UNCHANGED <<kbVars, variant, activeTab, shVars, now, currentMessage, brandTone, analytics, anaShown, nreq, msgStore>>

\* ------------------------------------------ another client of POST /api/chat
ApiPost(text) ==
    /\ nreq < MaxRequests
    /\ chatReqs' = chatReqs \cup
           {NewChatReq(nreq + 1, "api", ApiSession, text, "friendly")}
    /\ nreq' = nreq + 1
    /\ UNCHANGED <<kbVars, variant, activeTab, shVars, now, messages, currentMessage, brandTone, isLoading,
                   analytics, anaShown, errors, errorTimers, anaReqs, msgStore>>

ApiReceive(r) ==
    /\ r \in chatReqs /\ r.client = "api" /\ r.stage = "done"
    /\ chatReqs' = chatReqs \ {r}
    /\ UNCHANGED <<kbVars, variant, activeTab, shVars, now, messages, currentMessage, brandTone, isLoading,
                   analytics, anaShown, errors, errorTimers, anaReqs, nreq, msgStore>>

\* ----------------------------------------- Chat Orchestrator (spec 4.5)
\* the orchestrator returns: the response waits for its client, if any
Respond(r, resp) ==
    IF r.waiting
    THEN (chatReqs \ {r}) \cup {[r EXCEPT !.stage = "done", !.resp = resp]}
    ELSE chatReqs \ {r}

InvalidInput == [status |-> 400, message |-> Null, escalated |-> FALSE,
                 error |-> "InvalidInput"]
StorageError == [status |-> 500, message |-> Null, escalated |-> FALSE,
                 error |-> "StorageError"]
Reply(text, esc) == [status |-> 200, message |-> text, escalated |-> esc,
                     error |-> "none"]
\* step 5, on failure: the fixed fallback reply
FallbackReply == [status |-> 200, message |-> FallbackText, escalated |-> FALSE,
                  error |-> "none"]

\* steps 1-4: validate, fetch history, build the prompt, persist the user turn.
\* storeUp tells whether the store is reachable for this request.
Accept(r, storeUp) ==
    /\ r \in chatReqs /\ r.stage = "sent"
    /\ IF IsBlank(r.message)
       THEN /\ chatReqs' = Respond(r, InvalidInput)
            /\ UNCHANGED msgStore
       ELSE IF storeUp
       THEN /\ msgStore' = append(msgStore,
                   ChatMessage(r.session_id, r.message, "user", now, FALSE))
            /\ chatReqs' = (chatReqs \ {r}) \cup {[r EXCEPT !.stage = "calling"]}
       ELSE /\ chatReqs' = Respond(r, StorageError)
            /\ UNCHANGED msgStore
    /\ UNCHANGED <<kbVars, variant, activeTab, shVars, now, messages, currentMessage, brandTone, isLoading,
                   analytics, anaShown, errors, errorTimers, anaReqs, nreq>>

\* step 5, on success: persist the AI turn and return it
CompletionSucceeds(r, text, storeUp) ==
    /\ r \in chatReqs /\ r.stage = "calling"
    /\ LET esc == shouldEscalate(r.message, text, Keywords)
       IN  IF storeUp
           THEN /\ msgStore' = append(msgStore,
                       ChatMessage(r.session_id, text, "ai", now, esc))
                /\ chatReqs' = Respond(r, Reply(text, esc))
           ELSE /\ chatReqs' = Respond(r, StorageError)
                /\ UNCHANGED msgStore
    /\ UNCHANGED <<kbVars, variant, activeTab, shVars, now, messages, currentMessage, brandTone, isLoading,
                   analytics, anaShown, errors, errorTimers, anaReqs, nreq>>

\* step 5, on failure: persist the fallback AI message and return it
CompletionFails(r, failure, storeUp) ==
    /\ r \in chatReqs /\ r.stage = "calling"
    /\ failure \in ProviderFailures
    /\ IF storeUp
       THEN /\ msgStore' = append(msgStore,
                   ChatMessage(r.session_id, FallbackReply.message, "ai", now,
                               FallbackReply.escalated))
            /\ chatReqs' = Respond(r, FallbackReply)
       ELSE /\ chatReqs' = Respond(r, StorageError)
            /\ UNCHANGED msgStore
    /\ UNCHANGED <<kbVars, variant, activeTab, shVars, now, messages, currentMessage, brandTone, isLoading,
                   analytics, anaShown, errors, errorTimers, anaReqs, nreq>>

\* ------------------------------------------------ GET /api/analytics
RemoveAt(s, i) == SubSeq(s, 1, i - 1) \o SubSeq(s, i + 1, Len(s))

\* the server answers the i-th outstanding request from the store as it is now
ServeAnalytics(i, storeUp) ==
    /\ i \in 1..Len(anaReqs) /\ anaReqs[i].stage = "sent"
    /\ anaReqs' = [anaReqs EXCEPT ![i] =
           [id    |-> anaReqs[i].id,
            stage |-> "done",
            resp  |-> IF storeUp
                      THEN [status |-> 200, data |-> snapshot(msgStore)]
                      ELSE [status |-> 500, data |-> EmptyObject]]]
    /\ UNCHANGED <<kbVars, variant, activeTab, shVars, now, messages, currentMessage, brandTone, isLoading,
                   analytics, anaShown, errors, errorTimers, chatReqs, nreq, msgStore>>

\* the catch block of loadAnalytics (App.js 220-223 / 1208-1210)
LoadAnalyticsFails ==
    /\ IF variant = "enhanced"
       THEN /\ errorTimers["analytics"] < MaxTimers
            /\ errors' = ErrorsAfterShow(errors, "analytics", AnalyticsErrorText)
            /\ errorTimers' = TimersAfterShow(errorTimers, "analytics")
       ELSE UNCHANGED <<errors, errorTimers>>
    /\ UNCHANGED <<analytics, anaShown>>

\* loadAnalytics after its await (App.js 217-223 / 1206-1210)
AnalyticsResponse(i) ==
    /\ i \in 1..Len(anaReqs) /\ anaReqs[i].stage = "done"
    /\ IF anaReqs[i].resp.status = 200
       THEN /\ analytics' = anaReqs[i].resp.data
            /\ anaShown' = anaReqs[i].id
            /\ errors' = IF variant = "enhanced"
                         THEN [errors EXCEPT !["analytics"] = Null] ELSE errors
            /\ UNCHANGED errorTimers
       ELSE LoadAnalyticsFails
    /\ anaReqs' = RemoveAt(anaReqs, i)
    /\ UNCHANGED <<kbVars, variant, activeTab, shVars, now, messages, currentMessage, brandTone, isLoading,
                   chatReqs, nreq, msgStore>>

\* the request is lost or (enhanced: timeout 10000) times out
AnalyticsAbort(i) ==
    /\ i \in 1..Len(anaReqs)
    /\ LoadAnalyticsFails
    /\ anaReqs' = RemoveAt(anaReqs, i)
    /\ UNCHANGED <<kbVars, variant, activeTab, shVars, now, messages, currentMessage, brandTone, isLoading,
                   chatReqs, nreq, msgStore>>

\* =============================================================== knowledge
\* showSuccess(message): set the message and start its 3 s timer (enhanced)
ShowSuccess(text) ==
    /\ successTimers < MaxTimers
    /\ successMessage' = text
    /\ successTimers' = successTimers + 1

\* the callback of showSuccess's setTimeout: setSuccessMessage("")
SuccessTimerFires ==
    /\ successTimers > 0
    /\ successMessage' = EmptyText
    /\ successTimers' = successTimers - 1
    /\ UNCHANGED <<chatVars, variant, activeTab, shVars, now, errors, errorTimers, knowledgeBase, kbShown,
                   uploadFile, isUploading, kbReqs, upReqs, delReqs, nkb, kStore, nextId>>

\* showError(key, text) as one conjunct
ShowError(key, text) ==
    /\ errorTimers[key] < MaxTimers
    /\ errors' = ErrorsAfterShow(errors, key, text)
    /\ errorTimers' = TimersAfterShow(errorTimers, key)

\* onChange of the file input; the enhanced input is disabled={isUploading}
setUploadFile(f) ==
    /\ variant = "enhanced" => ~isUploading
    /\ f # uploadFile
    /\ uploadFile' = f
    /\ UNCHANGED <<chatVars, variant, activeTab, shVars, now, errors, errorTimers, knowledgeBase, kbShown,
                   isUploading, successMessage, successTimers, kbReqs, upReqs,
                   delReqs, nkb, kStore, nextId>>

NewKbReq == [id |-> NextLoadId(kbReqs, kbShown), stage |-> "sent", resp |-> NoKbResp]

NewUpload(n, f) == [id |-> n, file |-> f, waiting |-> TRUE, stage |-> "sent", status |-> 0]

\* uploadKnowledgeBase up to its await (App.js 155-184 / 1174-1183); the
\* button is disabled={!uploadFile || isUploading}, basic: disabled={!uploadFile}
uploadKnowledgeBase ==
    /\ uploadFile # NoFile
    /\ variant = "enhanced" => ~isUploading
    /\ IF variant = "enhanced" /\ UploadCheck(uploadFile) # Null
       THEN /\ ShowError("upload", UploadCheck(uploadFile))
            /\ UNCHANGED <<isUploading, upReqs, nkb>>
       ELSE /\ nkb < MaxKbOps
            /\ upReqs' = upReqs \cup {NewUpload(nkb + 1, uploadFile)}
            /\ nkb' = nkb + 1
            /\ IF variant = "enhanced"
               THEN /\ isUploading' = TRUE
                    /\ errors' = [errors EXCEPT !["upload"] = Null]
               ELSE UNCHANGED <<isUploading, errors>>
            /\ UNCHANGED errorTimers
    /\ UNCHANGED <<chatVars, variant, activeTab, shVars, now, knowledgeBase, kbShown, uploadFile, successMessage,
                   successTimers, kbReqs, delReqs, kStore, nextId>>

\* the server handles an upload: type and size are enforced before create
ServeUpload(u, storeUp) ==
    /\ u \in upReqs /\ u.stage = "sent"
    /\ LET status == IF UploadStatus(u.file) # 200 THEN UploadStatus(u.file)
                     ELSE IF storeUp THEN 200 ELSE 500
       IN  /\ IF status = 200
              THEN /\ kStore' = create(kStore, nextId, u.file.name, u.file.content, now)
                   /\ nextId' = nextId + 1
              ELSE UNCHANGED <<kStore, nextId>>
           /\ upReqs' = IF u.waiting
                        THEN (upReqs \ {u}) \cup
                                 {[u EXCEPT !.stage = "done", !.status = status]}
                        ELSE upReqs \ {u}
    /\ UNCHANGED <<chatVars, variant, activeTab, shVars, now, errors, errorTimers, knowledgeBase, kbShown,
                   uploadFile, isUploading, successMessage, successTimers, kbReqs,
                   delReqs, nkb>>

ForgetUpload(u) ==
    IF u.stage = "done" THEN upReqs \ {u}
    ELSE (upReqs \ {u}) \cup {[u EXCEPT !.waiting = FALSE]}

\* the try block after the await (App.js 186-188 / 1185-1187) and finally
UploadSucceeds(u) ==
    /\ uploadFile' = NoFile
    /\ kbReqs' = Append(kbReqs, NewKbReq)
    /\ IF variant = "enhanced"
       THEN /\ ShowSuccess(u.file.name \o UploadedSuffix)
            /\ isUploading' = FALSE
       ELSE UNCHANGED <<successMessage, successTimers, isUploading>>
    /\ UNCHANGED <<errors, errorTimers>>

\* a variant whose catch block drops the selected file
UploadFailsDroppingFile(error) ==
    /\ IF variant = "enhanced"
       THEN /\ ShowError("upload", UploadErrorText(error))
            /\ isUploading' = FALSE
       ELSE UNCHANGED <<errors, errorTimers, isUploading>>
    /\ uploadFile' = NoFile
    /\ UNCHANGED <<kbReqs, successMessage, successTimers>>
\* the catch block (App.js 190-198 / 1189-1192) and finally
UploadFails(error) ==
    /\ IF variant = "enhanced"
       THEN /\ ShowError("upload", UploadErrorText(error))
            /\ isUploading' = FALSE
       ELSE UNCHANGED <<errors, errorTimers, isUploading>>
    /\ UNCHANGED <<uploadFile, kbReqs, successMessage, successTimers>>

UploadResponse(u) ==
    /\ u \in upReqs /\ u.waiting /\ u.stage = "done"
    /\ IF u.status = 200
       THEN UploadSucceeds(u)
       ELSE UploadFails([hasResponse |-> TRUE, status |-> u.status])
    /\ upReqs' = ForgetUpload(u)
    /\ UNCHANGED <<chatVars, variant, activeTab, shVars, now, knowledgeBase, kbShown, delReqs, nkb, kStore, nextId>>

\* the upload is lost or (enhanced: timeout 60000) times out
UploadAbort(u) ==
    /\ u \in upReqs /\ u.waiting
    /\ UploadFails([hasResponse |-> FALSE, status |-> 0])
    /\ upReqs' = ForgetUpload(u)
    /\ UNCHANGED <<chatVars, variant, activeTab, shVars, now, knowledgeBase, kbShown, delReqs, nkb, kStore, nextId>>

\* ------------------------------------------------ GET /api/knowledge-base
ServeKnowledgeBase(i, storeUp) ==
    /\ i \in 1..Len(kbReqs) /\ kbReqs[i].stage = "sent"
    /\ kbReqs' = [kbReqs EXCEPT ![i] =
           [id    |-> kbReqs[i].id,
            stage |-> "done",
            resp  |-> IF storeUp THEN [status |-> 200, data |-> list(kStore)]
                      ELSE [status |-> 500, data |-> <<>>]]]
    /\ UNCHANGED <<chatVars, variant, activeTab, shVars, now, errors, errorTimers, knowledgeBase, kbShown,
                   uploadFile, isUploading, successMessage, successTimers, upReqs,
                   delReqs, nkb, kStore, nextId>>

\* a variant whose catch block also empties the displayed list
LoadKnowledgeBaseFailsEmptying ==
    /\ IF variant = "enhanced"
       THEN ShowError("knowledgeBase", LoadKbErrorText)
       ELSE UNCHANGED <<errors, errorTimers>>
    /\ knowledgeBase' = <<>>
    /\ UNCHANGED kbShown
\* the catch block of loadKnowledgeBase (App.js 209-212 / 1199-1201)
LoadKnowledgeBaseFails ==
    /\ IF variant = "enhanced"
       THEN ShowError("knowledgeBase", LoadKbErrorText)
       ELSE UNCHANGED <<errors, errorTimers>>
    /\ UNCHANGED <<knowledgeBase, kbShown>>

\* loadKnowledgeBase after its await (App.js 206-212 / 1197-1201)
KnowledgeBaseResponse(i) ==
    /\ i \in 1..Len(kbReqs) /\ kbReqs[i].stage = "done"
    /\ IF kbReqs[i].resp.status = 200
       THEN /\ knowledgeBase' = kbReqs[i].resp.data
            /\ kbShown' = kbReqs[i].id
            /\ errors' = IF variant = "enhanced"
                         THEN [errors EXCEPT !["knowledgeBase"] = Null] ELSE errors
            /\ UNCHANGED errorTimers
       ELSE LoadKnowledgeBaseFails
    /\ kbReqs' = RemoveAt(kbReqs, i)
    /\ UNCHANGED <<chatVars, variant, activeTab, shVars, now, uploadFile, isUploading, successMessage,
                   successTimers, upReqs, delReqs, nkb, kStore, nextId>>

KnowledgeBaseAbort(i) ==
    /\ i \in 1..Len(kbReqs)
    /\ LoadKnowledgeBaseFails
    /\ kbReqs' = RemoveAt(kbReqs, i)
    /\ UNCHANGED <<chatVars, variant, activeTab, shVars, now, uploadFile, isUploading, successMessage,
                   successTimers, upReqs, delReqs, nkb, kStore, nextId>>

\* --------------------------------------- DELETE /api/knowledge-base/{id}
NewDelete(n, id) == [id |-> n, target |-> id, waiting |-> TRUE, stage |-> "sent", status |-> 0]

\* deleteKnowledgeItem(item.id) up to its await (App.js 226-232 / 1213-1215);
\* confirmed is the answer to window.confirm, which only the enhanced variant asks
deleteKnowledgeItem(id, confirmed) ==
    /\ \E i \in 1..Len(knowledgeBase) : knowledgeBase[i].id = id
    /\ variant = "basic" => confirmed
    /\ IF confirmed
       THEN /\ nkb < MaxKbOps
            /\ delReqs' = delReqs \cup {NewDelete(nkb + 1, id)}
            /\ nkb' = nkb + 1
       ELSE UNCHANGED <<delReqs, nkb>>
    /\ UNCHANGED <<chatVars, variant, activeTab, shVars, now, errors, errorTimers, knowledgeBase, kbShown,
                   uploadFile, isUploading, successMessage, successTimers, kbReqs,
                   upReqs, kStore, nextId>>

\* the server handles a delete: 200 if the id existed, 404 if not
ServeDelete(d, storeUp) ==
    /\ d \in delReqs /\ d.stage = "sent"
    /\ LET status == IF ~storeUp THEN 500
                     ELSE IF exists(kStore, d.target) THEN 200 ELSE 404
       IN  /\ kStore' = IF status = 200 THEN deleteById(kStore, d.target) ELSE kStore
           /\ delReqs' = IF d.waiting
                         THEN (delReqs \ {d}) \cup
                                  {[d EXCEPT !.stage = "done", !.status = status]}
                         ELSE delReqs \ {d}
    /\ UNCHANGED <<chatVars, variant, activeTab, shVars, now, errors, errorTimers, knowledgeBase, kbShown,
                   uploadFile, isUploading, successMessage, successTimers, kbReqs,
                   upReqs, nkb, nextId>>

ForgetDelete(d) ==
    IF d.stage = "done" THEN delReqs \ {d}
    ELSE (delReqs \ {d}) \cup {[d EXCEPT !.waiting = FALSE]}

\* the try block after the await (App.js 233-234 / 1216)
DeleteSucceeds ==
    /\ kbReqs' = Append(kbReqs, NewKbReq)
    /\ IF variant = "enhanced"
       THEN ShowSuccess(DeletedText)
       ELSE UNCHANGED <<successMessage, successTimers>>
    /\ UNCHANGED <<errors, errorTimers>>

\* a variant that reloads the list whatever the outcome
DeleteFailsReload ==
    /\ IF variant = "enhanced"
       THEN ShowError("knowledgeBase", DeleteFailedText)
       ELSE UNCHANGED <<errors, errorTimers>>
    /\ kbReqs' = Append(kbReqs, NewKbReq)
    /\ UNCHANGED <<successMessage, successTimers>>
\* the catch block (App.js 235-238 / 1217-1219)
DeleteFails ==
    /\ IF variant = "enhanced"
       THEN ShowError("knowledgeBase", DeleteFailedText)
       ELSE UNCHANGED <<errors, errorTimers>>
    /\ UNCHANGED <<kbReqs, successMessage, successTimers>>

DeleteResponse(d) ==
    /\ d \in delReqs /\ d.waiting /\ d.stage = "done"
    /\ IF d.status = 200 THEN DeleteSucceeds ELSE DeleteFails
    /\ delReqs' = ForgetDelete(d)
    /\ UNCHANGED <<chatVars, variant, activeTab, shVars, now, knowledgeBase, kbShown, uploadFile, isUploading,
                   upReqs, nkb, kStore, nextId>>

\* the delete is lost or (enhanced: timeout 10000) times out
DeleteAbort(d) ==
    /\ d \in delReqs /\ d.waiting
    /\ DeleteFails
    /\ delReqs' = ForgetDelete(d)
    /\ UNCHANGED <<chatVars, variant, activeTab, shVars, now, knowledgeBase, kbShown, uploadFile, isUploading,
                   upReqs, nkb, kStore, nextId>>

\* ================================================================ the specs
KbIds == 0..MaxKbOps

\* the chat UI and the backend behind it, the clock standing still
UiNext ==
    \/ \E v \in Inputs : setCurrentMessage(v)
    \/ \E k \in ErrKeys : ErrorTimerFires(k)
    \/ sendMessage
    \/ \E r \in chatReqs : ChatResponse(r)
    \/ \E r \in chatReqs, code \in {"ECONNABORTED", "ERR_NETWORK"} : ChatAbort(r, code)
    \/ \E r \in chatReqs, up \in BOOLEAN : Accept(r, up)
    \/ \E r \in chatReqs, text \in GenTexts, up \in BOOLEAN : CompletionSucceeds(r, text, up)
    \/ \E r \in chatReqs, f \in ProviderFailures, up \in BOOLEAN : CompletionFails(r, f, up)

SpecUi == Init /\ [][UiNext]_vars

\* the chat UI with a running clock and a reachable store
ClockNext ==
    \/ Tick
    \/ setCurrentMessage(MsgShout)
    \/ \E k \in ErrKeys : ErrorTimerFires(k)
    \/ (nreq < MaxTimedSends /\ sendMessage)
    \/ \E r \in chatReqs : ChatResponse(r)
    \/ \E r \in chatReqs, code \in {"ECONNABORTED", "ERR_NETWORK"} : ChatAbort(r, code)
    \/ \E r \in chatReqs : Accept(r, TRUE)
    \/ \E r \in chatReqs, text \in GenTexts : CompletionSucceeds(r, text, TRUE)
    \/ \E r \in chatReqs, f \in ProviderFailures : CompletionFails(r, f, TRUE)

SpecClock == Init /\ [][ClockNext]_vars

\* the backend driven through its HTTP surface by another client, and the
\* analytics load of the mounted UI.  Both variants load and render the
\* snapshot alike (215-224 and 1204-1211); the enhanced one also shows a timed
\* error banner, so it is the one mounted here.
ApiNext ==
    \/ \E text \in ApiTexts : ApiPost(text)
    \/ \E r \in chatReqs : ApiReceive(r)
    \/ \E r \in chatReqs, up \in BOOLEAN : Accept(r, up)
    \/ \E r \in chatReqs, text \in GenTexts, up \in BOOLEAN : CompletionSucceeds(r, text, up)
    \/ \E r \in chatReqs, f \in ProviderFailures, up \in BOOLEAN : CompletionFails(r, f, up)
    \/ \E i \in 1..Len(anaReqs), up \in BOOLEAN : ServeAnalytics(i, up)
    \/ \E i \in 1..Len(anaReqs) : AnalyticsResponse(i)
    \/ \E i \in 1..Len(anaReqs) : AnalyticsAbort(i)
    \/ \E k \in ErrKeys : ErrorTimerFires(k)

\* the enhanced App after its mount effect
InitEnhanced == Init /\ variant = "enhanced"

SpecApi == InitEnhanced /\ [][ApiNext]_vars

\* the knowledge-base tab and the endpoints behind it
KbNext ==
    \/ \E f \in Files \cup {NoFile} : setUploadFile(f)
    \/ uploadKnowledgeBase
    \/ \E u \in upReqs, up \in BOOLEAN : ServeUpload(u, up)
    \/ \E u \in upReqs : UploadResponse(u)
    \/ \E u \in upReqs : UploadAbort(u)
    \/ \E i \in 1..Len(kbReqs), up \in BOOLEAN : ServeKnowledgeBase(i, up)
    \/ \E i \in 1..Len(kbReqs) : KnowledgeBaseResponse(i)
    \/ \E i \in 1..Len(kbReqs) : KnowledgeBaseAbort(i)
    \/ \E id \in KbIds, c \in BOOLEAN : deleteKnowledgeItem(id, c)
    \/ \E d \in delReqs, up \in BOOLEAN : ServeDelete(d, up)
    \/ \E d \in delReqs : DeleteResponse(d)
    \/ \E d \in delReqs : DeleteAbort(d)
    \/ \E k \in ErrKeys : ErrorTimerFires(k)
    \/ SuccessTimerFires

SpecKb == Init /\ [][KbNext]_vars

\* no request of the chat or of the knowledge base is outstanding
Idle == chatReqs = {} /\ upReqs = {} /\ delReqs = {} /\ kbReqs = <<>>

\* The await of the enhanced sendMessage settles: with the server's response if
\* there is one, and by the 30 s timeout of axios (App.js 117) if there is none.
Settle ==
    \E r \in chatReqs : ChatResponse(r) \/ ChatAbort(r, "ECONNABORTED")

\* the chat UI and the backend behind it, one typed message
LiveNext ==
    \/ setCurrentMessage(MsgShout)
    \/ sendMessage
    \/ \E r \in chatReqs : ChatResponse(r)
    \/ \E r \in chatReqs, code \in {"ECONNABORTED", "ERR_NETWORK"} : ChatAbort(r, code)
    \/ \E r \in chatReqs, up \in BOOLEAN : Accept(r, up)
    \/ \E r \in chatReqs, text \in GenTexts, up \in BOOLEAN : CompletionSucceeds(r, text, up)
    \/ \E r \in chatReqs, f \in ProviderFailures, up \in BOOLEAN : CompletionFails(r, f, up)
    \/ ErrorTimerFires("chat")

\* the enhanced chat UI with its timers running: the timeout of a request and
\* the timeout of an error banner are browser timers, which do fire
SpecLive ==
    /\ InitEnhanced /\ [][LiveNext]_vars
    /\ WF_vars(Settle)
    /\ WF_vars(ErrorTimerFires("chat"))

\* the enhanced UI raising its banners, one way or more for each key of errors:
\* a send on the empty input, a refused or failed upload, a failed load of the
\* knowledge base and of the analytics
BannerNext ==
    \/ sendMessage
    \/ \E f \in Files : setUploadFile(f)
    \/ uploadKnowledgeBase
    \/ \E u \in upReqs : UploadAbort(u)
    \/ \E i \in 1..Len(kbReqs) : KnowledgeBaseAbort(i)
    \/ \E i \in 1..Len(anaReqs) : AnalyticsAbort(i)
    \/ \E k \in ErrKeys : ErrorTimerFires(k)

\* the 5 s timers of showError are browser timers, which do fire
SpecBanner ==
    /\ InitEnhanced /\ [][BannerNext]_vars
    /\ \A k \in ErrKeys : WF_vars(ErrorTimerFires(k))

\* --------------------------------------------------- what the page shows
\* demoMessages (App.js 249-254 / 1230-1235); new Date() is the time of the
\* render
demoMessages ==
    LET
        demo1 ==
          <<"H","i","!"," ","I"," ","n","e","e","d"," ","h","e","l","p"," ",
            "w","i","t","h"," ","m","y"," ","o","r","d","e","r"," ","s","t",
            "a","t","u","s",".">>
        demo2 ==
          <<"H","e","l","l","o","!"," ","I","'","d"," ","b","e"," ","h","a",
            "p","p","y"," ","t","o"," ","h","e","l","p"," ","y","o","u"," ",
            "c","h","e","c","k"," ","y","o","u","r"," ","o","r","d","e","r",
            " ","s","t","a","t","u","s","."," ","C","o","u","l","d"," ","y",
            "o","u"," ","p","l","e","a","s","e"," ","p","r","o","v","i","d",
            "e"," ","y","o","u","r"," ","o","r","d","e","r"," ","n","u","m",
            "b","e","r","?">>
        demo3 ==
          <<"I","t","'","s"," ","#","O","R","D","-","1","2","3","4","5">>
        demo4 ==
          <<"T","h","a","n","k"," ","y","o","u","!"," ","I"," ","c","a","n",
            " ","s","e","e"," ","y","o","u","r"," ","o","r","d","e","r"," ",
            "#","O","R","D","-","1","2","3","4","5"," ","i","s"," ","c","u",
            "r","r","e","n","t","l","y"," ","b","e","i","n","g"," ","p","r",
            "o","c","e","s","s","e","d"," ","a","n","d"," ","w","i","l","l",
            " ","s","h","i","p"," ","w","i","t","h","i","n"," ","2"," ","b",
            "u","s","i","n","e","s","s"," ","d","a","y","s","."," ","Y","o",
            "u","'","l","l"," ","r","e","c","e","i","v","e"," ","a"," ","t",
            "r","a","c","k","i","n","g"," ","e","m","a","i","l"," ","o","n",
            "c","e"," ","i","t","'","s"," ","d","i","s","p","a","t","c","h",
            "e","d","."," ","I","s"," ","t","h","e","r","e"," ","a","n","y",
            "t","h","i","n","g"," ","e","l","s","e"," ","I"," ","c","a","n",
            " ","h","e","l","p"," ","y","o","u"," ","w","i","t","h","?">>
    IN  <<[sender |-> "user", message |-> demo1, timestamp |-> now],
          [sender |-> "ai", message |-> demo2, timestamp |-> now],
          [sender |-> "user", message |-> demo3, timestamp |-> now],
          [sender |-> "ai", message |-> demo4, timestamp |-> now]>>

\* App.js 256 / 1237
displayMessages == IF Len(messages) > 0 THEN messages ELSE demoMessages

\* the transcript on the page: the chat tab maps displayMessages (App.js
\* 542 / 1293), the dashboard of the enhanced variant always maps
\* demoMessages.slice(-3) in its Live Chat Preview (App.js 436)
shownMessages ==
    IF activeTab = "chat" THEN displayMessages
    ELSE IF variant = "enhanced" /\ activeTab = "dashboard"
    THEN SubSeq(demoMessages, Len(demoMessages) - 2, Len(demoMessages))
    ELSE <<>>

\* the enhanced upload form with files of several types and the endpoints
\* behind it
UploadNext ==
    \/ \E f \in TypedFiles : setUploadFile(f)
    \/ uploadKnowledgeBase
    \/ \E u \in upReqs : ServeUpload(u, TRUE)
    \/ \E u \in upReqs : UploadResponse(u)
    \/ \E i \in 1..Len(kbReqs) : ServeKnowledgeBase(i, TRUE)
    \/ \E i \in 1..Len(kbReqs) : KnowledgeBaseResponse(i)
    \/ ErrorTimerFires("upload")
    \/ SuccessTimerFires

SpecUpload == InitEnhanced /\ [][UploadNext]_vars

\* the enhanced upload form with files around the 5 MB limit and the
\* endpoints behind it
SizeNext ==
    \/ \E f \in SizedFiles : setUploadFile(f)
    \/ uploadKnowledgeBase
    \/ \E u \in upReqs : ServeUpload(u, TRUE)
    \/ \E u \in upReqs : UploadResponse(u)
    \/ \E i \in 1..Len(kbReqs) : ServeKnowledgeBase(i, TRUE)
    \/ \E i \in 1..Len(kbReqs) : KnowledgeBaseResponse(i)
    \/ ErrorTimerFires("upload")
    \/ SuccessTimerFires

SpecSize == InitEnhanced /\ [][SizeNext]_vars

\* the enhanced upload form and an upload endpoint that can refuse the type
\* of the file, fail at the store or never answer
UploadErrNext ==
    \/ \E f \in {FileFaq, FileDocAsText} : setUploadFile(f)
    \/ uploadKnowledgeBase
    \/ \E u \in upReqs, up \in BOOLEAN : ServeUpload(u, up)
    \/ \E u \in upReqs : UploadResponse(u)
    \/ \E u \in upReqs : UploadAbort(u)
    \/ \E i \in 1..Len(kbReqs) : ServeKnowledgeBase(i, TRUE)
    \/ \E i \in 1..Len(kbReqs) : KnowledgeBaseResponse(i)
    \/ ErrorTimerFires("upload")
    \/ SuccessTimerFires

SpecUploadErr == InitEnhanced /\ [][UploadErrNext]_vars

\* ================================================================ setup.sh
\* $1 of an invocation: no argument, the six commands, anything else
Args == {"", "setup", "start", "stop", "logs", "health", "clean", "bogus"}
\* what the user answers to "Choose an option (1-8): "
Choices == {"1", "2", "3", "4", "5", "6", "7", "8", "x"}
\* the key in the environment or typed at the prompt; "" is no key
Keys == {"", "sk-test"}

\* the status of a docker-compose or docker command: 127 when the shell does
\* not find it, otherwise whatever the command returns
CommandStatus(found, ok) == IF ~found THEN 127 ELSE IF ok THEN 0 ELSE 1

\* the script is started: ./setup.sh [arg] (setup.sh 214-217)
Invoke(arg, docker, compose, key) ==
    /\ pc = "off"
    /\ arg \in Args /\ key \in Keys
    /\ argv1' = arg
    /\ hasDocker' = docker
    /\ hasCompose' = compose
    /\ OPENAI_API_KEY' = key
    /\ pc' = IF arg = "" THEN "main_menu" ELSE "dispatch"
    /\ UNCHANGED <<choice, envFile, composeUp, exitStatus>>
    /\ UNCHANGED <<kbVars, chatVars, variant, activeTab, now, errors, errorTimers>>

\* a variant that only reports what is missing
check_requirementsWarnOnly ==
    /\ pc = "check_requirements"
    /\ pc' = "setup_directories"
    /\ UNCHANGED <<argv1, choice, hasDocker, hasCompose, OPENAI_API_KEY, envFile,
                   composeUp, exitStatus>>
    /\ UNCHANGED <<kbVars, chatVars, variant, activeTab, now, errors, errorTimers>>
\* check_requirements (setup.sh 8-24): exit 1 leaves the script
check_requirements ==
    /\ pc = "check_requirements"
    /\ IF ~hasDocker \/ ~hasCompose
       THEN pc' = "exited" /\ exitStatus' = 1
       ELSE pc' = "setup_directories" /\ UNCHANGED exitStatus
    /\ UNCHANGED <<argv1, choice, hasDocker, hasCompose, OPENAI_API_KEY, envFile, composeUp>>
    /\ UNCHANGED <<kbVars, chatVars, variant, activeTab, now, errors, errorTimers>>

\* setup_directories (setup.sh 27-55): no exit, whatever mkdir and cat return
setup_directories ==
    /\ pc = "setup_directories"
    /\ pc' = "setup_environment"
    /\ UNCHANGED <<argv1, choice, hasDocker, hasCompose, OPENAI_API_KEY, envFile,
                   composeUp, exitStatus>>
    /\ UNCHANGED <<kbVars, chatVars, variant, activeTab, now, errors, errorTimers>>

\* setup_environment (setup.sh 58-91): typed is what read -p gets when the
\* variable is empty
setup_environment(typed) ==
    /\ pc = "setup_environment"
    /\ typed \in Keys
    /\ LET key == IF OPENAI_API_KEY = "" THEN typed ELSE OPENAI_API_KEY
       IN  /\ OPENAI_API_KEY' = key
           /\ IF key = ""
              THEN pc' = "exited" /\ exitStatus' = 1 /\ UNCHANGED envFile
              ELSE pc' = "start_services" /\ envFile' = key /\ UNCHANGED exitStatus
    /\ UNCHANGED <<argv1, choice, hasDocker, hasCompose, composeUp>>
    /\ UNCHANGED <<kbVars, chatVars, variant, activeTab, now, errors, errorTimers>>

\* start_services (setup.sh 94-121): docker-compose up --build -d
start_services ==
    /\ pc = "start_services"
    /\ composeUp' = hasCompose
    /\ pc' = "health_check"
    /\ UNCHANGED <<argv1, choice, hasDocker, hasCompose, OPENAI_API_KEY, envFile, exitStatus>>
    /\ UNCHANGED <<kbVars, chatVars, variant, activeTab, now, errors, errorTimers>>

\* health_check (setup.sh 124-140) ends with an echo, and so does the script
health_check ==
    /\ pc = "health_check"
    /\ pc' = "exited" /\ exitStatus' = 0
    /\ UNCHANGED <<argv1, choice, hasDocker, hasCompose, OPENAI_API_KEY, envFile, composeUp>>
    /\ UNCHANGED <<kbVars, chatVars, variant, activeTab, now, errors, errorTimers>>

\* the case of main_menu (setup.sh 169-210): answer is what read -p gets, ok
\* whether docker-compose logs succeeds; an invalid answer shows the menu again
main_menu(answer, ok) ==
    /\ pc = "main_menu"
    /\ answer \in Choices
    /\ choice' = answer
    /\ composeUp' = IF answer = "2" THEN hasCompose ELSE composeUp
    /\ pc' = IF answer = "1" THEN "check_requirements"
             ELSE IF answer = "6" THEN "health_check"
             ELSE IF answer = "x" THEN "main_menu"
             ELSE "exited"
    /\ exitStatus' = IF answer = "5" THEN CommandStatus(hasCompose, ok)
                     ELSE IF answer \in {"1", "6", "x"} THEN exitStatus
                     ELSE 0
    /\ UNCHANGED <<argv1, hasDocker, hasCompose, OPENAI_API_KEY, envFile>>
    /\ UNCHANGED <<kbVars, chatVars, variant, activeTab, now, errors, errorTimers>>

\* the case on $1 (setup.sh 217-245); ok is whether the last docker command
\* of the branch succeeds
Dispatch(ok) ==
    /\ pc = "dispatch"
    /\ composeUp' = IF argv1 = "start" THEN hasCompose ELSE composeUp
    /\ pc' = IF argv1 = "setup" THEN "check_requirements"
             ELSE IF argv1 = "health" THEN "health_check"
             ELSE "exited"
    /\ exitStatus' = IF argv1 \in {"start", "logs"} THEN CommandStatus(hasCompose, ok)
                     ELSE IF argv1 = "clean" THEN CommandStatus(hasDocker, ok)
                     ELSE IF argv1 = "bogus" THEN 1
                     ELSE 0
    /\ UNCHANGED <<argv1, choice, hasDocker, hasCompose, OPENAI_API_KEY, envFile>>
    /\ UNCHANGED <<kbVars, chatVars, variant, activeTab, now, errors, errorTimers>>

SetupNext ==
    \/ \E arg \in Args, docker \in BOOLEAN, compose \in BOOLEAN, key \in Keys :
           Invoke(arg, docker, compose, key)
    \/ \E answer \in Choices, ok \in BOOLEAN : main_menu(answer, ok)
    \/ \E ok \in BOOLEAN : Dispatch(ok)
    \/ check_requirements
    \/ setup_directories
    \/ \E typed \in Keys : setup_environment(typed)
    \/ start_services
    \/ health_check

SpecSetup == Init /\ [][SetupNext]_vars

\* -------------------------------------------------- the analytics panels
AnalyticsFields == {"total_conversations", "ai_handled", "escalated", "time_saved_hours"}

\* the bodies GET /api/analytics can carry: any of the fields may be missing
AnalyticsObjects == UNION {[D -> 0..MaxCount] : D \in SUBSET AnalyticsFields}

\* axios.get resolves with status 200 and the body data (App.js 217 / 1206)
AnswerAnalytics(i, data) ==
    /\ i \in 1..Len(anaReqs) /\ anaReqs[i].stage = "sent"
    /\ data \in AnalyticsObjects
    /\ anaReqs' = [anaReqs EXCEPT ![i] =
           [id |-> anaReqs[i].id, stage |-> "done",
            resp |-> [status |-> 200, data |-> data]]]
    /\ UNCHANGED <<kbVars, variant, activeTab, shVars, now, messages, currentMessage, brandTone, isLoading,
                   analytics, anaShown, errors, errorTimers, chatReqs, nreq, msgStore>>

\* loadAnalytics of the mount effect and the panels that render its result
AnalyticsNext ==
    \/ \E i \in 1..Len(anaReqs), data \in AnalyticsObjects : AnswerAnalytics(i, data)
    \/ \E i \in 1..Len(anaReqs) : AnalyticsResponse(i)
    \/ \E i \in 1..Len(anaReqs) : AnalyticsAbort(i)
    \/ ErrorTimerFires("analytics")

SpecAnalytics == Init /\ [][AnalyticsNext]_vars

\* the chat of either variant with its failures, and the tabs the user looks
\* at between two turns
TranscriptNext ==
    \/ (chatReqs = {} /\ \E t \in Tabs : setActiveTab(t))
    \/ (activeTab = "chat" /\ setCurrentMessage(MsgShout))
    \/ (activeTab = "chat" /\ sendMessage)
    \/ \E r \in chatReqs : ChatResponse(r)
    \/ \E r \in chatReqs : ChatAbort(r, "ERR_NETWORK")
    \/ \E r \in chatReqs : Accept(r, TRUE)
    \/ \E r \in chatReqs, text \in GenTexts : CompletionSucceeds(r, text, TRUE)
    \/ ErrorTimerFires("chat")

SpecTranscript == Init /\ [][TranscriptNext]_vars

\* the two loaders with the operations that call them: the mount effect
\* (already issued), a chat turn that ends with a reply, an upload that
\* succeeds; the server may fail a load; no banner timer fires; the user
\* chats while nothing of the knowledge base is pending and uploads while
\* nothing of the chat is
LoadNext ==
    \/ (upReqs = {} /\ kbReqs = <<>> /\ setCurrentMessage(MsgShout))
    \/ (upReqs = {} /\ kbReqs = <<>> /\ sendMessage)
    \/ \E r \in chatReqs : Accept(r, TRUE)
    \/ \E r \in chatReqs : CompletionSucceeds(r, GenTextA, TRUE)
    \/ \E r \in chatReqs : ChatResponse(r)
    \/ \E i \in 1..Len(anaReqs), up \in BOOLEAN : ServeAnalytics(i, up)
    \/ \E i \in 1..Len(anaReqs) : AnalyticsResponse(i)
    \/ (chatReqs = {} /\ anaReqs = <<>> /\ setUploadFile(FileFaq))
    \/ (chatReqs = {} /\ anaReqs = <<>> /\ uploadKnowledgeBase)
    \/ \E u \in upReqs : ServeUpload(u, TRUE)
    \/ \E u \in upReqs : UploadResponse(u)
    \/ \E i \in 1..Len(kbReqs), up \in BOOLEAN : ServeKnowledgeBase(i, up)
    \/ \E i \in 1..Len(kbReqs) : KnowledgeBaseResponse(i)

SpecLoad == Init /\ [][LoadNext]_vars

\* the chat tab alone: typing, choosing the tone (the select is never
\* disabled) and sending, the backend answering every request
BodyNext ==
    \/ \E v \in Inputs : setCurrentMessage(v)
    \/ \E t \in Tones : setBrandTone(t)
    \/ sendMessage
    \/ \E r \in chatReqs : Accept(r, TRUE)
    \/ \E r \in chatReqs, text \in GenTexts : CompletionSucceeds(r, text, TRUE)
    \/ \E r \in chatReqs : ChatResponse(r)
    \/ ErrorTimerFires("chat")

SpecBody == Init /\ [][BodyNext]_vars

\* one UI instance used across its tabs by a user who lets each operation end
\* before the next: chatting, changing the tone, uploading and deleting, each
\* control on the tab that renders it, the backend answering
SessionNext ==
    \/ (Idle /\ \E t \in Tabs : setActiveTab(t))
    \/ (Idle /\ activeTab = "chat" /\ setCurrentMessage(MsgShout))
    \/ (Idle /\ activeTab \in {"chat", "settings"} /\ \E t \in Tones : setBrandTone(t))
    \/ (Idle /\ activeTab = "chat" /\ sendMessage)
    \/ \E r \in chatReqs : ChatResponse(r)
    \/ \E r \in chatReqs : Accept(r, TRUE)
    \/ \E r \in chatReqs, text \in GenTexts : CompletionSucceeds(r, text, TRUE)
    \/ (Idle /\ activeTab = "knowledge" /\ setUploadFile(FileFaq))
    \/ (Idle /\ activeTab = "knowledge" /\ uploadKnowledgeBase)
    \/ (Idle /\ activeTab = "knowledge" /\ \E id \in KbIds : deleteKnowledgeItem(id, TRUE))
    \/ \E u \in upReqs : ServeUpload(u, TRUE)
    \/ \E u \in upReqs : UploadResponse(u)
    \/ \E i \in 1..Len(kbReqs) : ServeKnowledgeBase(i, TRUE)
    \/ \E i \in 1..Len(kbReqs) : KnowledgeBaseResponse(i)
    \/ \E d \in delReqs : ServeDelete(d, TRUE)
    \/ \E d \in delReqs : DeleteResponse(d)
    \/ ErrorTimerFires("chat")
    \/ SuccessTimerFires

SpecSession == Init /\ [][SessionNext]_vars

\* everything together
Next ==
    \/ UiNext \/ ClockNext \/ ApiNext \/ KbNext \/ SessionNext
    \/ UploadNext \/ TranscriptNext \/ AnalyticsNext \/ SetupNext \/ LoadNext \/ BodyNext \/ SizeNext \/ UploadErrNext

Spec == Init /\ [][Next]_vars
\* ================================================================ properties
UiRequests == {r \in chatReqs : r.client = "ui"}
\* the chat requests the UI is still awaiting
InFlight == {r \in UiRequests : r.waiting}
Answered == {r \in chatReqs : r.stage = "done"}

UserCount == Cardinality({i \in 1..Len(messages) : messages[i].sender = "user"})
AiCount == Cardinality({i \in 1..Len(messages) : messages[i].sender = "ai"})

\* every character of s is white space (s may be empty)
AllSpaces(s) == \A i \in 1..Len(s) : IsSpace(s[i])

\* s is a prefix of t
IsPrefix(s, t) == Len(s) <= Len(t) /\ SubSeq(t, 1, Len(s)) = s

C2_OneAiMessagePerSend ==
    /\ AiCount <= UserCount
    /\ UserCount - AiCount = Cardinality(InFlight)
    /\ InFlight = {} => AiCount = UserCount

\* two sends completed, one with a reply and one with an error surrogate
C2_Witness ==
    /\ InFlight = {}
    /\ UserCount = 2 /\ AiCount = 2
    /\ \E i, j \in 1..Len(messages) :
           messages[i].id.suffix = "_ai" /\ messages[j].id.suffix = "_error"

\* C3: a sendMessage on an empty or whitespace-only input sends no request,
\* appends no message, leaves isLoading and the input as they are and persists
\* nothing.
C3_BlankSendHasNoEffect ==
    [][(AllSpaces(currentMessage) /\ sendMessage) =>
          UNCHANGED <<messages, isLoading, currentMessage, chatReqs, nreq, msgStore>>]_vars

\* the enhanced sendMessage has rejected a whitespace-only input
C3_Witness ==
    /\ currentMessage = MsgSpaces
    /\ errors["chat"] = EnterMessageText
    /\ messages = <<>> /\ chatReqs = {} /\ msgStore = <<>> /\ ~isLoading

\* the requests whose user turn the orchestrator has persisted for certain
PastPersist == {r \in chatReqs : r.stage = "calling" \/ r.resp.status = 200}
UserTurns(r) ==
    {i \in 1..Len(msgStore) :
        /\ msgStore[i].sender = "user"
        /\ msgStore[i].session_id = r.session_id
        /\ msgStore[i].message = r.message}

\* C4: the user message is in the list as soon as its request exists, the user
\* turn is in the store before the provider is called, and no step (a failure or
\* a timeout of the attempt included) removes or changes a recorded user message
\* or a persisted turn.
C4_UserTurnRecordedFirst ==
    /\ [](/\ \A r \in UiRequests :
                 \E i \in 1..Len(messages) :
                    messages[i].sender = "user" /\ messages[i].message = r.message
          /\ \A r \in PastPersist : UserTurns(r) # {}
          /\ Cardinality(PastPersist) <=
                 Cardinality({i \in 1..Len(msgStore) : msgStore[i].sender = "user"}))
    /\ [][IsPrefix(messages, messages') /\ IsPrefix(msgStore, msgStore')]_vars

\* the completion attempt of a turn failed after its user turn was persisted:
\* the UI shows the user message and the surrogate, the store has the user turn
C4_Witness ==
    /\ Len(messages) = 2
    /\ messages[1].sender = "user" /\ messages[2].id.suffix = "_error"
    /\ Len(msgStore) = 1 /\ msgStore[1].sender = "user"
    /\ chatReqs = {}

\* the identity and the bounds the claim states of one AnalyticsSnapshot
Balanced(snap) ==
    /\ snap.ai_handled + snap.escalated = snap.total_conversations
    /\ 0 <= snap.ai_handled /\ snap.ai_handled <= snap.total_conversations
    /\ 0 <= snap.escalated

\* C5: in every reachable state of the message store the snapshot satisfies
\* ai_handled + escalated = total_conversations with 0 <= ai_handled <= total,
\* so does every snapshot served or displayed, and the automation rate the UI
\* derives from it lies between 0 and 100.
C5_SnapshotBalanced ==
    /\ Balanced(snapshot(msgStore))
    /\ AutomationRate(snapshot(msgStore)) \in 0..100
    /\ \A i \in 1..Len(anaReqs) :
           anaReqs[i].resp.status = 200 =>
               /\ Balanced(anaReqs[i].resp.data)
               /\ AutomationRate(anaReqs[i].resp.data) \in 0..100
    /\ analytics # EmptyObject =>
           Balanced(analytics) /\ AutomationRate(analytics) \in 0..100

\* the UI displays a snapshot of two conversations, one of them escalated
C5_Witness ==
    /\ analytics # EmptyObject
    /\ analytics.total_conversations = 2
    /\ analytics.escalated = 1 /\ analytics.ai_handled = 1
    /\ AutomationRate(analytics) = 50

\* C6: no upload of a file larger than 5 MB changes the knowledge store, in
\* either variant: neither the handler's step nor the server's step for such a
\* file touches kStore, and no KnowledgeItem ever stems from such a file.
C6_OversizeNeverStored ==
    /\ [](\A i \in 1..Len(kStore) :
             \A f \in Files : f.size > FiveMB => kStore[i].filename # f.name)
    /\ [][/\ (uploadFile.size > FiveMB /\ uploadKnowledgeBase) => kStore' = kStore
          /\ \A u \in upReqs :
                 (u.file.size > FiveMB /\ \E up \in BOOLEAN : ServeUpload(u, up))
                     => kStore' = kStore /\ Len(kStore') = Len(kStore)]_vars

\* the basic variant has sent an oversize file and the server has refused it
C6_Witness ==
    /\ variant = "basic"
    /\ \E u \in upReqs : u.file.size > FiveMB /\ u.stage = "done" /\ u.status = 413
    /\ kStore = <<SeedItem>>

\* C7: the server answers a delete of an id that is not in the store with 404
\* and leaves the store as it is; when that answer reaches the enhanced UI it
\* sets the 'Failed to delete item' error, shows no success message, issues no
\* reload and leaves the displayed list as it is.
C7_DeleteOfMissingId ==
    [][\A d \in delReqs :
          /\ (~exists(kStore, d.target) /\ ServeDelete(d, TRUE)) =>
                 /\ kStore' = kStore
                 /\ d.waiting =>
                        [d EXCEPT !.stage = "done", !.status = 404] \in delReqs'
          /\ (variant = "enhanced" /\ d.status = 404 /\ DeleteResponse(d)) =>
                 /\ errors'["knowledgeBase"] = DeleteFailedText
                 /\ UNCHANGED <<successMessage, successTimers, knowledgeBase,
                                kbReqs, kStore>>]_vars

\* the enhanced UI awaits a delete that the server has answered with 404
C7_Witness ==
    /\ variant = "enhanced"
    /\ \E d \in delReqs : d.waiting /\ d.stage = "done" /\ d.status = 404

NonDecreasing(s) ==
    \A i, j \in 1..Len(s) : i <= j => s[i].timestamp <= s[j].timestamp

KeywordOccurs(text, keywords) ==
    \E k \in keywords : \E i \in 1..Len(text) :
        /\ i + Len(k) - 1 <= Len(text)
        /\ \A j \in 1..Len(k) : LowerChar(text[i + j - 1]) = LowerChar(k[j])

\* the scenario of spec 8, and every input, reply and keyword set of the model
EscalationScenarios ==
    /\ shouldEscalate(MsgRefund, GenTextA, {KwRefund})
    /\ ~shouldEscalate(MsgThanks, GenTextA, {KwRefund})
    /\ \A text \in Inputs \cup ApiTexts, reply \in {GenTextA, GenTextB},
          ks \in SUBSET Keywords :
           shouldEscalate(text, reply, ks) <=> KeywordOccurs(text, ks)

\* C9: shouldEscalate is true exactly when some keyword occurs in the user
\* message as a case-insensitive substring: for the spec's scenario, for every
\* input and generated reply of the model, and in the escalated flag of every
\* reply the orchestrator returns for a completed turn.
C9_EscalationIsKeywordMatch ==
    /\ EscalationScenarios
    /\ \A r \in Answered :
           (r.resp.status = 200 /\ r.resp.message \in GenTexts) =>
               (r.resp.escalated <=> KeywordOccurs(r.message, Keywords))

\* two completed turns of the model: "I want a refund" escalated, "thanks,
\* great job" not
C9_Witness ==
    /\ \E r \in Answered :
           r.message = MsgRefund /\ r.resp.status = 200 /\ r.resp.escalated
    /\ \E r \in Answered :
           /\ r.message = MsgThanks /\ r.resp.status = 200
           /\ r.resp.message \in GenTexts /\ ~r.resp.escalated

\* C10: the fallback reply and the persisted fallback turn are not escalated,
\* an error surrogate has no escalated flag, and the badge is shown only on an
\* AI message built from a successful reply whose escalated is true, never on
\* a user message, a fallback reply or an error surrogate.
C10_FailureNeverEscalated ==
    /\ \A r \in chatReqs : r.resp.message = FallbackText => ~r.resp.escalated
    /\ \A i \in 1..Len(msgStore) :
           msgStore[i].message = FallbackText => ~msgStore[i].escalated
    /\ \A i \in 1..Len(messages) :
           /\ messages[i].id.suffix = "_error" => "escalated" \notin DOMAIN messages[i]
           /\ ShowsBadge(messages[i]) =>
                  /\ messages[i].sender = "ai"
                  /\ messages[i].id.suffix = "_ai"
                  /\ messages[i].message \in GenTexts

\* the list holds an escalated reply with its badge and the error surrogate of
\* a failed request without one
C10_Witness ==
    /\ \E i \in 1..Len(messages) : ShowsBadge(messages[i])
    /\ \E i \in 1..Len(messages) :
           messages[i].id.suffix = "_error" /\ ~ShowsBadge(messages[i])

\* the ids of the chat requests the UI is awaiting
InFlightIds == {r.id : r \in InFlight}

\* C11: a chat request comes into flight only by an accepted sendMessage, one
\* request per send, so the UI has issued as many requests as it has recorded
\* user messages; a request that fails, with an error response or without any
\* response, leaves the flight and nothing is sent in its place.
C11_NoAutomaticRetry ==
    /\ [](Cardinality(UiRequests) <= nreq /\ nreq = UserCount)
    /\ [][/\ (InFlightIds' \ InFlightIds # {}) =>
                 /\ sendMessage /\ ~IsBlank(currentMessage)
                 /\ InFlightIds' = InFlightIds \cup {nreq + 1}
                 /\ nreq' = nreq + 1
          /\ \A r \in InFlight :
                 (\/ \E code \in AbortCodes : ChatAbort(r, code)
                  \/ (r.resp.status # 200 /\ ChatResponse(r))) =>
                     /\ InFlightIds' = InFlightIds \ {r.id}
                     /\ nreq' = nreq]_vars

\* a request failed, the user submitted again, and that second request is the
\* only one in flight
C11_Witness ==
    /\ Len(messages) = 3
    /\ messages[2].id.suffix = "_error"
    /\ messages[3].sender = "user"
    /\ nreq = 2 /\ InFlightIds = {2}

\* C12: every chat request of the UI instance carries the session id the
\* instance was loaded with, any two of them carry the same one, and so does
\* every turn persisted for them, whatever sends, tone changes, uploads,
\* deletes and tab switches have happened.
C12_SessionIdFixed ==
    /\ \A r \in UiRequests : r.session_id = sessionId
    /\ \A r, q \in UiRequests : r.session_id = q.session_id
    /\ \A i \in 1..Len(msgStore) : msgStore[i].session_id = sessionId

\* after an upload on the knowledge tab and a change of tone, the second turn
\* is under way on the chat tab, its user turn persisted like the first one's
C12_Witness ==
    /\ nreq = 2
    /\ Cardinality({i \in 1..Len(msgStore) : msgStore[i].sender = "user"}) = 2
    /\ \E r \in UiRequests : r.id = 2 /\ r.brand_tone # "friendly"
    /\ Len(kStore) = 2
    /\ activeTab = "chat"

\* C13: in the enhanced variant every chat request in flight eventually leaves
\* the flight, and whenever isLoading is true it eventually becomes false.
C13_LoadingEnds ==
    /\ isLoading ~> ~isLoading
    /\ \A n \in 1..MaxRequests : (n \in InFlightIds) ~> (n \notin InFlightIds)

\* a request that got no response was ended by the client's timeout and the
\* input is enabled again
C13_Witness ==
    /\ variant = "enhanced"
    /\ Len(messages) = 2 /\ messages[2].message = TimedOutText
    /\ ~isLoading /\ InFlight = {}

\* C14: in the enhanced variant a banner that is showing has a timer pending
\* that will clear it, and every error set under a key is eventually cleared
\* (errors[key] is null again) by the timers alone.
C14_BannersDismiss ==
    /\ [](\A k \in ErrKeys : errors[k] # Null => errorTimers[k] > 0)
    /\ \A k \in ErrKeys : (errors[k] # Null) ~> (errors[k] = Null)

\* the banner of the failed analytics load is gone, its timer has fired, and
\* the banner of a refused upload is showing
C14_Witness ==
    /\ variant = "enhanced"
    /\ anaReqs = <<>> /\ analytics = EmptyObject
    /\ errors["analytics"] = Null /\ errorTimers["analytics"] = 0
    /\ errors["upload"] = FileSizeText /\ errorTimers["upload"] > 0

\* a call of loadAnalytics: one more GET /api/analytics request
AnalyticsPolled == anaReqs' = Append(anaReqs, NewAnaReq)

\* C15, as claimed: every step that completes a sendMessage, with a reply or
\* with a failure, calls loadAnalytics.
C15_AnalyticsAfterEveryTurn ==
    [][\A r \in InFlight :
          (ChatResponse(r) \/ \E code \in AbortCodes : ChatAbort(r, code))
              => AnalyticsPolled]_vars

\* C15, what the handlers do: a sendMessage that ends with a reply (HTTP 200)
\* calls loadAnalytics once, and one that ends with an error response, a
\* timeout or a network error issues no analytics request.
C15_AnalyticsAfterReply ==
    [][\A r \in InFlight :
          /\ (r.resp.status = 200 /\ ChatResponse(r)) => AnalyticsPolled
          /\ (\/ (r.resp.status # 200 /\ ChatResponse(r))
              \/ \E code \in AbortCodes : ChatAbort(r, code))
                 => anaReqs' = anaReqs]_vars

\* two turns have ended, one with a reply and one with a failure, and only one
\* analytics request was added to the one of the mount
C15_Witness ==
    /\ InFlight = {} /\ nreq = 2 /\ Len(messages) = 4
    /\ \E i, j \in 1..Len(messages) :
           messages[i].id.suffix = "_ai" /\ messages[j].id.suffix = "_error"
    /\ Len(anaReqs) = 2

\* C16 as stated: in the enhanced UI a selected file whose name does not end
\* in .txt, .csv or .pdf never results in an upload request and is rejected
\* with the "Only TXT, CSV, and PDF files are supported" error, whatever MIME
\* type it declares.
C16_ExtensionAlwaysEnforced ==
    /\ [](variant = "enhanced" => \A u \in upReqs : HasAllowedExt(u.file.name))
    /\ [][(/\ variant = "enhanced"
           /\ ~HasAllowedExt(uploadFile.name)
           /\ uploadKnowledgeBase)
          => /\ upReqs' = upReqs
             /\ errors'["upload"] = FileTypeText]_vars

\* C16, what the code does: the enhanced UI refuses a file of at most 5 MB
\* with the "Only TXT, CSV, and PDF files are supported" error exactly when
\* its MIME type is none of text/plain, text/csv, application/pdf AND its
\* name has none of the three extensions; a file with a foreign extension
\* that declares an allowed MIME type is sent to the server.
C16_TypeOrExtension ==
    /\ [][(variant = "enhanced" /\ uploadKnowledgeBase /\ uploadFile.size <= FiveMB)
          => /\ (upReqs' = upReqs /\ errors'["upload"] = FileTypeText)
                  <=> (/\ uploadFile.type \notin {"text/plain", "text/csv", "application/pdf"}
                       /\ ~HasAllowedExt(uploadFile.name))
             /\ upReqs' # upReqs
                  <=> (\/ uploadFile.type \in {"text/plain", "text/csv", "application/pdf"}
                       \/ HasAllowedExt(uploadFile.name))]_vars

\* notes.doc declared as text/plain is on its way to the server, after
\* notes.doc declared as application/msword was refused
C16_Witness ==
    /\ variant = "enhanced"
    /\ uploadFile = FileDocAsText
    /\ isUploading
    /\ \E u \in upReqs : u.file = FileDocAsText /\ u.stage = "sent"
    /\ errors["upload"] = Null
    /\ errorTimers["upload"] > 0

DemoShown == \E i \in 1..Len(shownMessages) : \E j \in 1..Len(demoMessages) :
                 shownMessages[i] = demoMessages[j]

SetupMode == argv1 = "setup" \/ (argv1 = "" /\ choice = "1")

\* C19: a full setup runs docker-compose up only after docker and
\* docker-compose were both found and a non-empty OPENAI_API_KEY was obtained
\* from the environment or the prompt (and written to .env); if any of the
\* three is missing the script exits with status 1 and never starts the
\* services.
C19_SetupStartsOnlyWhenComplete ==
    /\ [](SetupMode /\ composeUp =>
            /\ hasDocker /\ hasCompose
            /\ OPENAI_API_KEY # ""
            /\ envFile = OPENAI_API_KEY)
    /\ [](SetupMode /\ pc = "exited" /\ (~hasDocker \/ ~hasCompose \/ OPENAI_API_KEY = "") =>
            exitStatus = 1 /\ ~composeUp)
    /\ [](SetupMode /\ pc = "exited" /\ exitStatus = 0 => composeUp)
    /\ [][SetupMode' /\ ~composeUp /\ composeUp' =>
            /\ pc = "start_services"
            /\ hasDocker /\ hasCompose
            /\ OPENAI_API_KEY # ""]_vars

\* option 1 of the menu ran to its end with everything in place
C19_Witness ==
    /\ argv1 = "" /\ choice = "1"
    /\ pc = "exited" /\ exitStatus = 0
    /\ composeUp
    /\ hasDocker /\ hasCompose
    /\ envFile = "sk-test"

\* C20: in the enhanced variant at most one chat request is awaited at any
\* time, and while isLoading is true no step starts another one, whatever the
\* user does and whenever the requests end.
C20_OneRequestInFlight ==
    /\ [](variant = "enhanced" => Cardinality(InFlight) <= 1)
    /\ [][(variant = "enhanced" /\ isLoading) =>
            /\ InFlightIds' \subseteq InFlightIds
            /\ nreq' = nreq
            /\ currentMessage' = EmptyText]_vars

\* the second request is awaited after the first one ended in a failure
C20_Witness ==
    /\ variant = "enhanced"
    /\ isLoading
    /\ InFlightIds = {2}
    /\ Len(messages) = 3
    /\ messages[2].sender = "ai" /\ messages[3].sender = "user"
    /\ currentMessage = EmptyText

\* C21 as stated: in every reachable state of either variant isLoading is
\* true if and only if at least one chat request is awaited.
C21_LoadingIffInFlight == isLoading <=> InFlight # {}

\* C21, what the code does: the equivalence holds in the enhanced variant; in
\* the basic variant, whose Enter handler starts a request while another is
\* awaited, isLoading only implies that a request is awaited, and a request
\* that ends sets it to false whatever else is pending.
C21_LoadingImpliesInFlight ==
    /\ [](isLoading => InFlight # {})
    /\ [](variant = "enhanced" => (isLoading <=> InFlight # {}))
    /\ [][\A r \in InFlight :
            (ChatResponse(r) \/ \E code \in AbortCodes : ChatAbort(r, code))
                => ~isLoading']_vars

\* the basic variant: the first of two requests ended, the second is awaited
C21_Witness ==
    /\ variant = "basic"
    /\ ~isLoading
    /\ Cardinality(InFlight) = 1
    /\ Len(messages) = 3
    /\ messages[1].sender = "user" /\ messages[2].sender = "user"
    /\ messages[3].sender = "ai"

\* C22 as stated: a banner stays until its own timer fires or an operation on
\* the same key clears it; the timer of an earlier showError never clears an
\* error set later, nor the timer of an earlier showSuccess a later success
\* message.  Timers of one kind have one delay and fire in the order they
\* were started, and what is shown was set by the latest call, so the timer
\* that fires is the banner's own only when no other is pending.
C22_OwnTimerOnly ==
    /\ [][\A k \in ErrKeys :
            (errors[k] # Null /\ ErrorTimerFires(k)) => errorTimers[k] = 1]_vars
    /\ [][(successMessage # EmptyText /\ SuccessTimerFires) => successTimers = 1]_vars

\* C22, what the code does: showError and showSuccess never cancel a timer,
\* so every pending timer of a key clears whatever that key shows when it
\* fires; a banner leaves the page only through a timer of its key or an
\* operation on that key (a valid upload for "upload", a loaded list for
\* "knowledgeBase"), and a banner that shows has a timer pending.
C22_AnyTimerClears ==
    /\ [][\A k \in ErrKeys : ErrorTimerFires(k) => errors'[k] = Null]_vars
    /\ [][SuccessTimerFires => successMessage' = EmptyText]_vars
    /\ [][\A k \in ErrKeys : (errors[k] # Null /\ errors'[k] = Null) =>
            \/ ErrorTimerFires(k)
            \/ k = "upload" /\ uploadKnowledgeBase /\ UploadCheck(uploadFile) = Null
            \/ k = "knowledgeBase" /\ \E i \in 1..Len(kbReqs) : KnowledgeBaseResponse(i)]_vars
    /\ [][(successMessage # EmptyText /\ successMessage' = EmptyText)
            => SuccessTimerFires]_vars
    /\ [](\A k \in ErrKeys : errors[k] # Null => errorTimers[k] > 0)
    /\ [](successMessage # EmptyText => successTimers > 0)

\* notes.doc was refused twice and the first timer has taken the second
\* banner away while the second timer is still pending
C22_Witness ==
    /\ variant = "enhanced"
    /\ uploadFile = FileDoc
    /\ nkb = 0
    /\ errors["upload"] = Null
    /\ errorTimers["upload"] = 1

\* C23 as stated: for each loader the displayed data is the response of the
\* most recently issued request that succeeded; a response to an earlier
\* request that arrives after a later one never overwrites the newer data.
C23_NewestResponseWins ==
    /\ [][\A i \in 1..Len(anaReqs) :
            (anaReqs[i].resp.status = 200 /\ AnalyticsResponse(i))
                => (anaReqs[i].id > anaShown \/ analytics' = analytics)]_vars
    /\ [][\A i \in 1..Len(kbReqs) :
            (kbReqs[i].resp.status = 200 /\ KnowledgeBaseResponse(i))
                => (kbReqs[i].id > kbShown \/ knowledgeBase' = knowledgeBase)]_vars

\* C23, what the code does: neither loader orders its responses, so the
\* displayed data is the response that arrived last among those that
\* succeeded, whichever call it answers; a failed load leaves the data.
C23_LastArrivalWins ==
    /\ [][\A i \in 1..Len(anaReqs) : AnalyticsResponse(i) =>
            IF anaReqs[i].resp.status = 200
            THEN analytics' = anaReqs[i].resp.data /\ anaShown' = anaReqs[i].id
            ELSE analytics' = analytics /\ anaShown' = anaShown]_vars
    /\ [][\A i \in 1..Len(kbReqs) : KnowledgeBaseResponse(i) =>
            IF kbReqs[i].resp.status = 200
            THEN knowledgeBase' = kbReqs[i].resp.data /\ kbShown' = kbReqs[i].id
            ELSE knowledgeBase' = knowledgeBase /\ kbShown' = kbShown]_vars
    /\ [](\A i \in 1..Len(anaReqs) : \A j \in 1..Len(anaReqs) :
            i < j => anaReqs[i].id < anaReqs[j].id)
    /\ [](\A i \in 1..Len(kbReqs) : \A j \in 1..Len(kbReqs) :
            i < j => kbReqs[i].id < kbReqs[j].id)

\* the snapshot taken at mount arrived after the one taken after the first
\* turn: nothing is outstanding, no load has failed, the store holds a turn
\* and the panels show none
C23_Witness ==
    /\ anaReqs = <<>>
    /\ anaShown = 1
    /\ errorTimers["analytics"] = 0
    /\ variant = "enhanced"
    /\ AiCount = 1 /\ chatReqs = {}
    /\ FieldOr0(analytics, "total_conversations") = 0
    /\ countWhere(msgStore, "sender", "user") = 1

\* C24: in the enhanced variant the messages list alternates senders in every
\* reachable state: user messages at the odd places, AI messages at the even
\* ones, the last message being a user message exactly while its request is
\* awaited; the AI message a turn ends with directly follows the user message
\* of that turn and carries the reply of its request or the error text.
C24_SendersAlternate ==
    /\ [](variant = "enhanced" =>
            /\ \A i \in 1..Len(messages) :
                 messages[i].sender = IF i % 2 = 1 THEN "user" ELSE "ai"
            /\ (Len(messages) % 2 = 1) <=> InFlight # {})
    /\ [][variant = "enhanced" =>
            \A r \in InFlight :
              (ChatResponse(r) \/ \E code \in AbortCodes : ChatAbort(r, code)) =>
                /\ Len(messages') = Len(messages) + 1
                /\ messages[Len(messages)].sender = "user"
                /\ messages[Len(messages)].message = r.message
                /\ messages'[Len(messages')].sender = "ai"
                /\ (r.stage = "done" /\ r.resp.status = 200 /\ ChatResponse(r))
                     => messages'[Len(messages')].message = r.resp.message]_vars

\* two turns of the enhanced variant: the first got its reply, the second an
\* error surrogate
C24_Witness ==
    /\ variant = "enhanced"
    /\ Len(messages) = 4
    /\ messages[2].id.suffix = "_ai"
    /\ messages[4].id.suffix = "_error"
    /\ messages[1].sender = "user" /\ messages[3].sender = "user"
    /\ ~isLoading

\* ---------------------------------------------------------------- C25
\* the n-th user message of the list
UserMessageOfTurn(n) ==
    LET idx == {i \in 1..Len(messages) : messages[i].sender = "user"}
        nth == CHOOSE i \in idx : Cardinality({j \in idx : j <= i}) = n
    IN  messages[nth]

\* C25: a call of sendMessage that issues a request clears the input field, and
\* the request it issues carries as message exactly the input as it was when
\* the call began (untrimmed), which is also the text of the user message the
\* call appends, and as brand_tone the tone selected when the call began; from
\* then on the message of every request of the UI is the text of the user
\* message of its turn, and a later change of the input or of the tone leaves
\* the requests already issued as they are.
C25_BodyIsSubmittedInput ==
    /\ [][\A r \in chatReqs' :
             (r.client = "ui" /\ \A q \in chatReqs : q.id # r.id) =>
                 /\ currentMessage' = EmptyText
                 /\ r.message = currentMessage
                 /\ r.message # EmptyText
                 /\ r.brand_tone = brandTone
                 /\ Len(messages') = Len(messages) + 1
                 /\ messages'[Len(messages')].sender = "user"
                 /\ messages'[Len(messages')].message = r.message]_vars
    /\ [](\A r \in chatReqs :
             r.client = "ui" => UserMessageOfTurn(r.id).message = r.message)
    /\ [][(brandTone' # brandTone \/ currentMessage' # currentMessage) =>
             \A r \in chatReqs : \E q \in chatReqs' :
                 /\ q.id = r.id
                 /\ q.message = r.message
                 /\ q.brand_tone = r.brand_tone]_vars

\* a request in flight whose message is the padded input and whose tone is the
\* one chosen before submission, the input field empty and the tone changed
\* again since
C25_Witness ==
    /\ currentMessage = EmptyText
    /\ \E r \in chatReqs :
          /\ r.client = "ui"
          /\ r.waiting
          /\ r.message = MsgShout
          /\ r.brand_tone = "casual"
          /\ brandTone = "formal"
          /\ messages[Len(messages)].message = MsgShout

\* ---------------------------------------------------------------- C26
\* the banners of every key but one are what they were
OtherErrorsKept(key) ==
    \A k \in ErrKeys \ {key} : errors'[k] = errors[k] /\ errorTimers'[k] = errorTimers[k]

\* C26: in the enhanced variant a load that fails leaves the displayed
\* knowledge list or analytics snapshot as it was and sets the error of its
\* own key, a load that succeeds replaces the data by the response and clears
\* the error of its own key; either way the errors of the other keys, the
\* data of the other loader, the success message, the messages and the
\* selected file stay as they were.
C26_LoadFrame ==
    /\ [][variant = "enhanced" =>
            \A i \in 1..Len(anaReqs) : AnalyticsResponse(i) =>
              /\ IF anaReqs[i].resp.status = 200
                 THEN /\ analytics' = anaReqs[i].resp.data
                      /\ errors'["analytics"] = Null
                 ELSE /\ analytics' = analytics
                      /\ errors'["analytics"] = AnalyticsErrorText
              /\ OtherErrorsKept("analytics")
              /\ UNCHANGED <<knowledgeBase, successMessage, messages, uploadFile,
                             isLoading, isUploading>>]_vars
    /\ [][variant = "enhanced" =>
            \A i \in 1..Len(kbReqs) : KnowledgeBaseResponse(i) =>
              /\ IF kbReqs[i].resp.status = 200
                 THEN /\ knowledgeBase' = kbReqs[i].resp.data
                      /\ errors'["knowledgeBase"] = Null
                 ELSE /\ knowledgeBase' = knowledgeBase
                      /\ errors'["knowledgeBase"] = LoadKbErrorText
              /\ OtherErrorsKept("knowledgeBase")
              /\ UNCHANGED <<analytics, successMessage, messages, uploadFile,
                             isLoading, isUploading>>]_vars

\* the reload after the second upload has failed: the list still shows the
\* item of the first upload although the store holds two, the knowledge error
\* is shown, and the analytics error set by an earlier failed load is shown too
C26_Witness ==
    /\ variant = "enhanced"
    /\ kbReqs = <<>> /\ upReqs = {}
    /\ Len(knowledgeBase) = 1
    /\ Len(kStore) = 2
    /\ errors["knowledgeBase"] = LoadKbErrorText
    /\ errors["analytics"] = AnalyticsErrorText

\* ---------------------------------------------------------------- C27
\* the upload requests the UI is awaiting
UploadsInFlight == {u \in upReqs : u.waiting}

\* C27: in the enhanced variant isUploading is true exactly while an upload
\* request is awaited, and a request is issued only for a file that passes
\* validation; when the request succeeds the selected file becomes null, one
\* load of the knowledge list is issued, the success message naming the file
\* is shown and no error changes; when it fails (a response with an error
\* status, a lost request, a timeout) the selected file stays the uploaded
\* one, no load is issued, the 'upload' error is set and nothing else of the
\* errors or the success message changes; either way isUploading is false
\* afterwards.
C27_UploadOutcomes ==
    /\ [](variant = "enhanced" =>
            /\ isUploading <=> UploadsInFlight # {}
            /\ Cardinality(UploadsInFlight) <= 1
            /\ \A u \in UploadsInFlight : UploadCheck(u.file) = Null /\ uploadFile = u.file)
    /\ [][variant = "enhanced" =>
            \A u \in UploadsInFlight :
              /\ (UploadResponse(u) /\ u.status = 200) =>
                   /\ uploadFile' = NoFile
                   /\ Len(kbReqs') = Len(kbReqs) + 1
                   /\ kbReqs'[Len(kbReqs')].stage = "sent"
                   /\ successMessage' = u.file.name \o UploadedSuffix
                   /\ errors' = errors
                   /\ ~isUploading'
              /\ ((UploadResponse(u) /\ u.status # 200) \/ UploadAbort(u)) =>
                   /\ uploadFile' = u.file
                   /\ kbReqs' = kbReqs
                   /\ errors'["upload"] \in {TooLargeText, UnsupportedText, UploadFailedText}
                   /\ \A k \in ErrKeys \ {"upload"} : errors'[k] = errors[k]
                   /\ successMessage' = successMessage
                   /\ ~isUploading']_vars

\* a second upload has failed while the success message of the first is still
\* shown: the file is still selected, no reload is outstanding and the store
\* holds what the first upload added
C27_Witness ==
    /\ variant = "enhanced"
    /\ nkb = 2
    /\ ~isUploading /\ UploadsInFlight = {}
    /\ uploadFile = FileFaq
    /\ errors["upload"] = UploadFailedText
    /\ successMessage = NameFaqTxt \o UploadedSuffix
    /\ kbReqs = <<>>

\* ---------------------------------------------------------------- C28
\* the text the claim assigns to a failure with this status and this code
ClaimedChatText(status, code) ==
    IF status = 500 THEN UnavailableText
    ELSE IF code = "ECONNABORTED" THEN TimedOutText
    ELSE DefaultErrorText

\* C28: when a chat request of the enhanced variant fails, the message
\* appended is an error surrogate whose text is the text set under key
\* 'chat' by the same step, and that text is the 'unavailable' text for a
\* response with status 500, else the 'timed out' text for error code
\* ECONNABORTED, else the default text (a response with another status, a
\* network error); the three texts differ from each other.
C28_ChatErrorMapping ==
    /\ [][variant = "enhanced" =>
            \A r \in InFlight :
              /\ (ChatResponse(r) /\ r.resp.status # 200) =>
                   /\ messages'[Len(messages')].id.suffix = "_error"
                   /\ messages'[Len(messages')].message = errors'["chat"]
                   /\ errors'["chat"] = ClaimedChatText(r.resp.status, "ERR_BAD_RESPONSE")
              /\ \A code \in AbortCodes : ChatAbort(r, code) =>
                   /\ messages'[Len(messages')].id.suffix = "_error"
                   /\ messages'[Len(messages')].message = errors'["chat"]
                   /\ errors'["chat"] = ClaimedChatText(0, code)]_vars
    /\ [](\A status \in {400, 404, 422, 429, 500, 502, 503, 504} :
            \A code \in {"ERR_BAD_RESPONSE", "ERR_BAD_REQUEST"} :
              ChatErrorText([hasResponse |-> TRUE, status |-> status, code |-> code])
                  = ClaimedChatText(status, code))
    /\ [](\A code \in {"ECONNABORTED", "ERR_NETWORK", "ERR_CANCELED"} :
              ChatErrorText([hasResponse |-> FALSE, status |-> 0, code |-> code])
                  = ClaimedChatText(0, code))
    /\ [](Cardinality({UnavailableText, TimedOutText, DefaultErrorText}) = 3)

\* two turns have failed, the first with status 500 and the second by the
\* timeout: each surrogate carries its own text and the banner shows the
\* text of the second
C28_Witness ==
    /\ variant = "enhanced"
    /\ Len(messages) = 4
    /\ messages[2].id.suffix = "_error" /\ messages[2].message = UnavailableText
    /\ messages[4].id.suffix = "_error" /\ messages[4].message = TimedOutText
    /\ errors["chat"] = TimedOutText

ClaimedUploadText(status) ==
    IF status = 413 THEN TooLargeText
    ELSE IF status = 415 THEN UnsupportedText
    ELSE UploadFailedText

\* C30: when an upload request of the enhanced variant fails, the error set
\* under key 'upload' is the 'too large' text for a response with status 413,
\* the 'unsupported type' text for status 415 and the generic 'upload failed'
\* text for every other failure (another status, a network error, a
\* timeout); the three texts differ, so exactly one of them is shown.
C30_UploadErrorMapping ==
    /\ [][variant = "enhanced" =>
            \A u \in UploadsInFlight :
              /\ (UploadResponse(u) /\ u.status # 200) =>
                   errors'["upload"] = ClaimedUploadText(u.status)
              /\ UploadAbort(u) =>
                   errors'["upload"] = ClaimedUploadText(0)]_vars
    /\ [](\A status \in {400, 404, 413, 415, 422, 500, 502, 503} :
            UploadErrorText([hasResponse |-> TRUE, status |-> status])
                = ClaimedUploadText(status))
    /\ [](UploadErrorText([hasResponse |-> FALSE, status |-> 0]) = UploadFailedText)
    /\ [](Cardinality({TooLargeText, UnsupportedText, UploadFailedText}) = 3)

\* the server has refused the type of the second upload with 415 after the
\* first upload failed too: the 'unsupported type' text is shown, with the
\* timer of the first failure still pending
C30_Witness ==
    /\ variant = "enhanced"
    /\ nkb = 2
    /\ uploadFile = FileDocAsText
    /\ errors["upload"] = UnsupportedText
    /\ errorTimers["upload"] = 2
    /\ ~isUploading /\ UploadsInFlight = {}

====
